---- MODULE Spec2Model ----
(***************************************************************************)
(* A model of escnn's group kernel: CyclicGroup (cyclicgroup.py) and O2    *)
(* (o2group.py): the group law under the supported parametrizations, the   *)
(* lazily filled irrep registries, the memoizing group factories and the   *)
(* subgroup inclusion / restriction maps.                                  *)
(*                                                                         *)
(* Python values carry their runtime type, because the code branches and   *)
(* asserts on it.  A float that stands for an angle is an integer number   *)
(* of grid steps of 2pi/Turn; every group order of the model divides Turn, *)
(* so the angles the code computes from group elements are exact.  A       *)
(* matrix entry is a cosine of a grid angle, kept as that angle folded     *)
(* into [0, pi]: cos is injective there, so equal codes are equal numbers. *)
(***************************************************************************)
EXTENDS Integers, Sequences, FiniteSets, TLC

VARIABLES
    heap,                               \* the objects built so far (groups, irreps); a reference is an index
    CyclicGroup_cached_group_instances, \* CyclicGroup._cached_group_instances: N -> reference
    O2_cached_group_instance,           \* O2._cached_group_instance: a reference, or NoRef
    other_cached_group_instances,       \* the instances the factories of SO2 and DihedralGroup keep
    self,                               \* the group the method calls of a behaviour are made on
    maps,                               \* the triple the last _subgroup call returned
    call                                \* the last call: its name, its arguments, what it returned or raised

vars == <<heap, CyclicGroup_cached_group_instances, O2_cached_group_instance,
          other_cached_group_instances, self, maps, call>>

\* The largest group order (and subgroup order) of a behaviour.
MaxN == 6

\* ---------------------------------------------------------------- numbers

RECURSIVE GCD(_, _)
GCD(a, b) == IF b = 0 THEN a ELSE GCD(b, a % b)

RECURSIVE LCMUpTo(_)
LCMUpTo(n) == IF n <= 1 THEN 1 ELSE LET l == LCMUpTo(n - 1) IN (l * n) \div GCD(l, n)

\* Grid steps in a full turn: a multiple of 8 and of every order up to MaxN.
Turn == 8 * LCMUpTo(MaxN)

Pi == Turn \div 2

Abs(x) == IF x < 0 THEN -x ELSE x

\* ---------------------------------------------------------- Python values

PyInt(v) == [type |-> "int", val |-> <<v>>]
PyFloat(t) == [type |-> "float", val |-> <<t>>]
NdArray(m) == [type |-> "ndarray", val |-> m]
PyTuple(t) == [type |-> "tuple", val |-> t]
PyBool(b) == [type |-> "bool", val |-> <<b>>]
PyRef(r) == [type |-> "object", val |-> <<r>>]
PyList(l) == [type |-> "list", val |-> l]
None == [type |-> "NoneType", val |-> <<>>]

\* The number an int or a float holds.
Num(v) == v.val[1]

Ok(v) == [exc |-> "none", val |-> v]
Raise(e) == [exc |-> e, val |-> None]
IsOk(r) == r.exc = "none"

NoRef == 0

\* ------------------------------------------------------------ trigonometry

\* cos(t): the angle t folded into [0, Pi].
Cos(t) == LET r == t % Turn IN IF r <= Pi THEN r ELSE Turn - r

\* sin(t) = cos(t - pi/2).
Sin(t) == Cos(t - Turn \div 4)

\* -x for a cosine x: -cos(u) = cos(pi - u).
Neg(x) == Pi - x

Zero == Turn \div 4

\* -1, 0 or 1: the sign of a cosine.
Sign(x) == IF 4 * x < Turn THEN 1 ELSE IF 4 * x = Turn THEN 0 ELSE -1

\* (a + b) / 2 of two cosines, for the two cases a rotation matrix gives:
\* equal entries and opposite entries.
HalfSum(a, b) == IF b = Neg(a) THEN Zero ELSE a

HalfDiff(a, b) == HalfSum(a, Neg(b))

\* np.arctan2(sin, cos), in (-Pi, Pi]: of (0, c) it is 0 for c >= 0 and pi
\* for c < 0; of a point of the unit circle it is the point's angle.
ArcTan2(sin, cos) ==
    IF sin = Zero THEN (IF Sign(cos) < 0 THEN Pi ELSE 0)
    ELSE IF Sign(sin) > 0 THEN cos ELSE -cos

\* [[cos, -sin], [sin, cos]] of the angle t.
RotationMatrix(t) == << <<Cos(t), Neg(Sin(t))>>, <<Sin(t), Cos(t)>> >>

\* det(m) = 1 and m m^T = I: m is the rotation matrix of some angle.
IsShape22(m) == Len(m) = 2 /\ Len(m[1]) = 2 /\ Len(m[2]) = 2

IsRotation(m) ==
    /\ m[1][1] = m[2][2]
    /\ m[1][2] = Neg(m[2][1])
    /\ m[2][1] \in {Cos(m[1][1] - Turn \div 4), Cos(m[1][1] + Turn \div 4)}

\* utils.cycle_isclose(a, b, period): a and b differ by a multiple of period.
cycle_isclose(a, b, period) == (a - b) % period = 0

\* ------------------------------------------------------------ real numbers

\* The entries of the matrices of a representation, and its characters, are
\* sums and products of cosines of grid angles.  Such a number is kept as
\* sum of n[u] * cos(u) over the angles u of DOMAIN n, divided by 2^d, with
\* every u in [0, pi/2), every n[u] nonzero, and d the least possible: cos of
\* any grid angle is plus or minus such a cos(u), or 0.  Sums are exact, and
\* a product is taken by cos(a) cos(b) = (cos(a - b) + cos(a + b)) / 2.
\* Equal records are equal numbers.
Real(n, d) == [n |-> n, d |-> d]

RECURSIVE Pow2(_)
Pow2(e) == IF e = 0 THEN 1 ELSE 2 * Pow2(e - 1)

RECURSIVE Halved(_, _)
Halved(n, d) ==
    IF d > 0 /\ \A u \in DOMAIN n : n[u] % 2 = 0
    THEN Halved([u \in DOMAIN n |-> n[u] \div 2], d - 1)
    ELSE Real(n, d)

\* The number of the coefficients c (a function on the angles S) over 2^d.
Normal(c, S, d) ==
    LET support == {u \in S : c[u] # 0}
    IN  IF support = {} THEN Real(<<>>, 0) ELSE Halved([u \in support |-> c[u]], d)

\* cos(t) = Weight(t, u) * cos(u) for the one u = Fold(t) of [0, pi/2].
Fold(t) == IF Cos(t) <= Zero THEN Cos(t) ELSE Pi - Cos(t)
Weight(t, u) == IF Fold(t) # u \/ u = Zero THEN 0 ELSE Sign(Cos(t))

RInt(i) == Normal([u \in {0} |-> i], {0}, 0)
RCos(t) == Normal([u \in {Fold(t)} |-> Weight(t, u)], {Fold(t)}, 0)
RSin(t) == RCos(t - Turn \div 4)
Coefficient(x, u) == IF u \in DOMAIN x.n THEN x.n[u] ELSE 0

RNeg(x) == Real([u \in DOMAIN x.n |-> -x.n[u]], x.d)

RAdd(x, y) ==
    LET d == IF x.d > y.d THEN x.d ELSE y.d
        S == DOMAIN x.n \cup DOMAIN y.n
    IN  Normal([u \in S |-> Coefficient(x, u) * Pow2(d - x.d) + Coefficient(y, u) * Pow2(d - y.d)],
               S, d)

RECURSIVE SumOver(_, _)
SumOver(S, f) ==
    IF S = {} THEN 0 ELSE LET p == CHOOSE q \in S : TRUE IN f[p] + SumOver(S \ {p}, f)

RMul(x, y) ==
    LET pairs == (DOMAIN x.n) \X (DOMAIN y.n)
        S == {Fold(p[1] - p[2]) : p \in pairs} \cup {Fold(p[1] + p[2]) : p \in pairs}
        c == [u \in S |->
                SumOver(pairs, [p \in pairs |->
                    x.n[p[1]] * y.n[p[2]] * (Weight(p[1] - p[2], u) + Weight(p[1] + p[2], u))])]
    IN  Normal(c, S, x.d + y.d + 1)

\* np.eye(n), a @ b, a.T, np.trace(a) and a.shape[0] of square matrices.
Eye(n) == [i \in 1 .. n |-> [j \in 1 .. n |-> IF i = j THEN RInt(1) ELSE RInt(0)]]

RECURSIVE Dot(_, _, _, _, _)
Dot(a, b, i, j, l) ==
    IF l = 0 THEN RInt(0) ELSE RAdd(Dot(a, b, i, j, l - 1), RMul(a[i][l], b[l][j]))

MatMul(a, b) == [i \in 1 .. Len(a) |-> [j \in 1 .. Len(b[1]) |-> Dot(a, b, i, j, Len(b))]]

Transpose(a) == [j \in 1 .. Len(a[1]) |-> [i \in 1 .. Len(a) |-> a[i][j]]]

RECURSIVE Trace(_, _)
Trace(a, l) == IF l = 0 THEN RInt(0) ELSE RAdd(Trace(a, l - 1), a[l][l])

\* utils.psi(theta, k): the rotation matrix of the angle k * theta.
psi(theta, k) ==
    << <<RCos(k * theta), RNeg(RSin(k * theta))>>, <<RSin(k * theta), RCos(k * theta)>> >>

\* utils.chi(flip): the reflection diag(1, -1) for flip = 1, the identity for flip = 0.
chi(flip) ==
    IF flip = 1 THEN << <<RInt(1), RInt(0)>>, <<RInt(0), RInt(-1)>> >> ELSE Eye(2)

\* utils.psichi(theta, flip, k) = psi(theta, k) @ chi(flip).
psichi(theta, flip, k) == MatMul(psi(theta, k), chi(flip))

\* ------------------------------------------------------------- CyclicGroup

CyclicGroup_PARAM == "int"

CyclicGroup_PARAMETRIZATIONS == {"int", "radians", "MAT"}

\* The angle of 'MAT' input: the asserts, then arctan2 of the two means.
CyclicGroup_from_MAT(element) ==
    IF element.type # "ndarray" THEN Raise("AssertionError")
    ELSE IF ~IsShape22(element.val) THEN Raise("AssertionError")
    ELSE IF ~IsRotation(element.val) THEN Raise("AssertionError")
    ELSE LET cos == HalfSum(element.val[1][1], element.val[2][2])
             sin == HalfDiff(element.val[2][1], element.val[2][1])
         IN  Ok(PyFloat(ArcTan2(sin, cos)))

\* The canonical int of an 'int' or 'radians' value.
CyclicGroup_to_int(N, element, p_from) ==
    IF p_from = "int"
    THEN IF element.type = "int" THEN Ok(element) ELSE Raise("AssertionError")
    ELSE IF p_from = "radians"
    THEN IF element.type # "float" THEN Raise("AssertionError")
         ELSE IF ~cycle_isclose(Num(element), 0, Turn \div N) THEN Raise("ValueError")
         ELSE Ok(PyInt(((N * Num(element)) \div Turn) % N))
    ELSE Raise("ValueError")

\* The p_to encoding of a canonical int.
CyclicGroup_from_int(N, element, p_to) ==
    IF p_to = "int" THEN Ok(element)
    ELSE IF p_to = "radians" THEN Ok(PyFloat((Num(element) * Turn) \div N))
    ELSE IF p_to = "MAT" THEN Ok(NdArray(RotationMatrix((Num(element) * Turn) \div N)))
    ELSE Raise("ValueError")

CyclicGroup_change_param(N, element, p_from, p_to) ==
    IF p_from \notin CyclicGroup_PARAMETRIZATIONS \/ p_to \notin CyclicGroup_PARAMETRIZATIONS
    THEN Raise("AssertionError")
    ELSE LET rad == IF p_from = "MAT" THEN CyclicGroup_from_MAT(element) ELSE Ok(element)
             from == IF p_from = "MAT" THEN "radians" ELSE p_from
         IN  IF ~IsOk(rad) THEN rad
             ELSE LET int == CyclicGroup_to_int(N, rad.val, from)
                  IN  IF ~IsOk(int) THEN int ELSE CyclicGroup_from_int(N, int.val, p_to)

\* (-element) % N on the value as it was passed: an int stays an int, and a
\* float or an array stays what it is.
NegMod(N, element) ==
    IF element.type = "int" THEN PyInt((-Num(element)) % N) ELSE element

\* The inverse as N - element, which leaves 0 outside [0, N).
CyclicGroup_inverse_unreduced(N, element, param) ==
    LET checked == CyclicGroup_change_param(N, element, param, "int")
    IN  IF ~IsOk(checked) THEN checked
        ELSE IF element.type = "int" THEN CyclicGroup_change_param(N, PyInt(N - Num(element)), "int", param)
        ELSE CyclicGroup_change_param(N, element, "int", param)

CyclicGroup_inverse(N, element, param) ==
    LET checked == CyclicGroup_change_param(N, element, param, "int")
    IN  IF ~IsOk(checked) THEN checked
        ELSE CyclicGroup_change_param(N, NegMod(N, element), "int", param)

\* The sum left unreduced.
CyclicGroup_combine_unreduced(N, e1, e2, param, param1, param2) ==
    LET p1 == IF param1 = "None" THEN param ELSE param1
        p2 == IF param2 = "None" THEN param ELSE param2
        i1 == CyclicGroup_change_param(N, e1, p1, "int")
        i2 == CyclicGroup_change_param(N, e2, p2, "int")
    IN  IF ~IsOk(i1) THEN i1
        ELSE IF ~IsOk(i2) THEN i2
        ELSE CyclicGroup_change_param(N, PyInt(Num(i1.val) + Num(i2.val)), "int", param)

CyclicGroup_combine(N, e1, e2, param, param1, param2) ==
    LET p1 == IF param1 = "None" THEN param ELSE param1
        p2 == IF param2 = "None" THEN param ELSE param2
        i1 == CyclicGroup_change_param(N, e1, p1, "int")
        i2 == CyclicGroup_change_param(N, e2, p2, "int")
    IN  IF ~IsOk(i1) THEN i1
        ELSE IF ~IsOk(i2) THEN i2
        ELSE CyclicGroup_change_param(N, PyInt((Num(i1.val) + Num(i2.val)) % N), "int", param)

CyclicGroup_equal(N, e1, e2, param, param1, param2) ==
    LET p1 == IF param1 = "None" THEN param ELSE param1
        p2 == IF param2 = "None" THEN param ELSE param2
        i1 == CyclicGroup_change_param(N, e1, p1, "int")
        i2 == CyclicGroup_change_param(N, e2, p2, "int")
    IN  IF ~IsOk(i1) THEN i1
        ELSE IF ~IsOk(i2) THEN i2
        ELSE Ok(PyBool(Num(i1.val) = Num(i2.val)))

CyclicGroup_is_element(N, element, param) ==
    LET int == CyclicGroup_change_param(N, element, param, "int")
    IN  IF ~IsOk(int) THEN int
        ELSE IF int.val.type = "int" THEN Ok(PyBool(0 <= Num(int.val) /\ Num(int.val) < N))
        ELSE Ok(PyBool(FALSE))

\* ---------------------------------------------------------------------- O2

O2_PARAM == "radians"

O2_PARAMETRIZATIONS == {"radians", "MAT"}

\* The element (flip, rotation) in the canonical parametrization.
O2Pair(flip, rotation) == PyTuple(<<PyInt(flip), PyFloat(rotation)>>)

\* The angle of a 'MAT' rotation: the asserts, then arctan2 of the two means.
O2_from_MAT(rotation) ==
    IF rotation.type # "ndarray" THEN Raise("AssertionError")
    ELSE IF ~IsShape22(rotation.val) THEN Raise("AssertionError")
    ELSE IF ~IsRotation(rotation.val) THEN Raise("AssertionError")
    ELSE LET cos == HalfSum(rotation.val[1][1], rotation.val[2][2])
             sin == HalfDiff(rotation.val[2][1], rotation.val[1][2])
         IN  Ok(PyFloat(ArcTan2(sin, cos)))

O2_change_param(element, p_from, p_to) ==
    IF p_from \notin O2_PARAMETRIZATIONS \/ p_to \notin O2_PARAMETRIZATIONS
    THEN Raise("AssertionError")
    ELSE IF element.type # "tuple" THEN Raise("TypeError")
    ELSE IF Len(element.val) # 2 THEN Raise("ValueError")
    ELSE LET flip == element.val[1]
             rotation == element.val[2]
             rad == IF p_from = "MAT" THEN O2_from_MAT(rotation)
                    ELSE IF rotation.type = "float" THEN Ok(rotation)
                    ELSE Raise("AssertionError")
         IN  IF ~IsOk(rad) THEN rad
             ELSE LET normal == Num(rad.val) % Turn
                  IN  IF p_to = "radians" THEN Ok(PyTuple(<<flip, PyFloat(normal)>>))
                      ELSE Ok(PyTuple(<<flip, NdArray(RotationMatrix(normal))>>))

\* The inverse that negates the angle of a reflection too.
O2_inverse_negating(element, param) ==
    LET rad == O2_change_param(element, param, "radians")
    IN  IF ~IsOk(rad) THEN rad
        ELSE O2_change_param(PyTuple(<<rad.val.val[1], PyFloat(-Num(rad.val.val[2]))>>), "radians", param)

O2_inverse(element, param) ==
    LET rad == O2_change_param(element, param, "radians")
    IN  IF ~IsOk(rad) THEN rad
        ELSE LET flip == rad.val.val[1]
                 rotation == Num(rad.val.val[2])
                 inverse == PyTuple(<<flip, PyFloat(-rotation * (IF Num(flip) # 0 THEN -1 ELSE 1))>>)
             IN  O2_change_param(inverse, "radians", param)

\* The product that adds the angles whatever the left flip is.
O2_combine_direct(e1, e2, param, param1, param2) ==
    LET r1 == O2_change_param(e1, IF param1 = "None" THEN param ELSE param1, "radians")
        r2 == O2_change_param(e2, IF param2 = "None" THEN param ELSE param2, "radians")
    IN  IF ~IsOk(r1) THEN r1
        ELSE IF ~IsOk(r2) THEN r2
        ELSE O2_change_param(
                 O2Pair((Num(r1.val.val[1]) + Num(r2.val.val[1])) % 2,
                        Num(r1.val.val[2]) + Num(r2.val.val[2])),
                 "radians", param)

O2_combine(e1, e2, param, param1, param2) ==
    LET p1 == IF param1 = "None" THEN param ELSE param1
        p2 == IF param2 = "None" THEN param ELSE param2
        r1 == O2_change_param(e1, p1, "radians")
        r2 == O2_change_param(e2, p2, "radians")
    IN  IF ~IsOk(r1) THEN r1
        ELSE IF ~IsOk(r2) THEN r2
        ELSE LET product ==
                     O2Pair((Num(r1.val.val[1]) + Num(r2.val.val[1])) % 2,
                            Num(r1.val.val[2])
                                + (IF Num(r1.val.val[1]) # 0 THEN -1 ELSE 1) * Num(r2.val.val[2]))
             IN  O2_change_param(product, "radians", param)

O2_equal(e1, e2, param, param1, param2) ==
    LET p1 == IF param1 = "None" THEN param ELSE param1
        p2 == IF param2 = "None" THEN param ELSE param2
        r1 == O2_change_param(e1, p1, "radians")
        r2 == O2_change_param(e2, p2, "radians")
    IN  IF ~IsOk(r1) THEN r1
        ELSE IF ~IsOk(r2) THEN r2
        ELSE Ok(PyBool(/\ r1.val.val[1] = r2.val.val[1]
                       /\ cycle_isclose(Num(r1.val.val[2]), Num(r2.val.val[2]), Turn)))

O2_is_element(element, param) ==
    LET rad == O2_change_param(element, param, "radians")
    IN  IF ~IsOk(rad) THEN rad
        ELSE IF rad.val.val[1].type = "int" /\ rad.val.val[2].type = "float"
        THEN Ok(PyBool(Num(rad.val.val[1]) \in {0, 1}))
        ELSE Ok(PyBool(FALSE))

\* --------------------------------------------------- CyclicGroup: irreps

\* The angle element.to('radians') of the element with the int value.
CyclicGroup_radians(N, value) == Num(CyclicGroup_change_param(N, value, "int", "radians").val)

\* The irrep that is [[cos(k theta)]] at every frequency but 0.
build_irrep_cn_cosine(N, k, value) ==
    IF k = 0 THEN Eye(1) ELSE << <<RCos(k * CyclicGroup_radians(N, value))>> >>

\* The function _build_irrep_cn(k) returns, at an element of C_N.
build_irrep_cn(N, k, value) ==
    IF k = 0 THEN Eye(1)
    ELSE IF N % 2 = 0 /\ k = N \div 2 THEN << <<RCos(k * CyclicGroup_radians(N, value))>> >>
    ELSE psi(CyclicGroup_radians(N, value), k)

\* The character of the trivial irrep at every frequency.
build_char_cn_trivial(N, k, value) == RInt(1)

\* The character that is cos(k theta) at every frequency but 0.
build_char_cn_cosine(N, k, value) ==
    IF k = 0 THEN RInt(1) ELSE RCos(k * CyclicGroup_radians(N, value))

\* The function _build_char_cn(k) returns, at an element of C_N.
build_char_cn(N, k, value) ==
    IF k = 0 THEN RInt(1)
    ELSE IF N % 2 = 0 /\ k = N \div 2 THEN RCos(k * CyclicGroup_radians(N, value))
    ELSE RMul(RInt(2), RCos(k * CyclicGroup_radians(N, value)))

\* The decomposition that lists every irrep once.
CyclicGroup_tensor_product_irreps_once(N, J, l) ==
    LET j == IF J + l <= N \div 2 THEN J + l ELSE N - J - l
    IN  IF J = 0 \/ l = 0 THEN Ok(PyList(<< <<<<l + J>>, 1>> >>))
        ELSE IF N % 2 = 0 /\ (J = N \div 2 \/ l = N \div 2) THEN Ok(PyList(<< <<<<j>>, 1>> >>))
        ELSE IF l = J THEN Ok(PyList(<< <<<<0>>, 2>>, <<<<j>>, 1>> >>))
        ELSE Ok(PyList(<< <<<<Abs(l - J)>>, 1>>, <<<<j>>, 1>> >>))

\* CyclicGroup._tensor_product_irreps(J, l): the list of (id, multiplicity).
CyclicGroup_tensor_product_irreps(N, J, l) ==
    LET j == IF J + l <= N \div 2 THEN J + l ELSE N - J - l
        m == IF 2 * j < N THEN 1 ELSE 2
    IN  IF J = 0 \/ l = 0 THEN Ok(PyList(<< <<<<l + J>>, 1>> >>))
        ELSE IF N % 2 = 0 /\ (J = N \div 2 \/ l = N \div 2) THEN Ok(PyList(<< <<<<j>>, 1>> >>))
        ELSE IF l = J THEN Ok(PyList(<< <<<<0>>, 2>>, <<<<j>>, m>> >>))
        ELSE Ok(PyList(<< <<<<Abs(l - J)>>, 1>>, <<<<j>>, m>> >>))

\* 1 / np.sqrt(2) = cos(pi / 4).
InvSqrt2 == RCos(Turn \div 8)

\* The rows of the 4 x 4 matrix of _clebsh_gordan_coeff, before the division.
CGRows == << <<1, 0, 1, 0>>, <<0, 1, 0, 1>>, <<0, -1, 0, 1>>, <<1, 0, -1, 0>> >>

\* np.eye(size), its second column negated when negated holds, reshaped to
\* (size_m, size_n, 1, size): row-major, so the row is (a - 1) * size_n + b.
ReshapedEye(size_m, size_n, size, negated) ==
    [a \in 1 .. size_m |-> [b \in 1 .. size_n |-> [x \in 1 .. 1 |-> [d \in 1 .. size |->
        IF (a - 1) * size_n + b # d THEN RInt(0)
        ELSE IF negated /\ d = 2 THEN RInt(-1) ELSE RInt(1)]]]]

\* An array of zeros with one copy where there is none: (size_m, size_n, 1, 1).
NoCoefficients_padded(size_m, size_n) ==
    [a \in 1 .. size_m |-> [b \in 1 .. size_n |-> << <<RInt(0)>> >>]]

\* np.zeros((size_m, size_n, 0, size_j)).
NoCoefficients(size_m, size_n) ==
    [a \in 1 .. size_m |-> [b \in 1 .. size_n |-> <<>>]]

\* The two columns taken from the matrix without its division by sqrt(2).
ReshapedBlock_unscaled(size_m, size_n, size_j, first, negated) ==
    [a \in 1 .. size_m |-> [b \in 1 .. size_n |-> [x \in 1 .. (2 \div size_j) |-> [d \in 1 .. size_j |->
        LET column == (x - 1) * size_j + d
            entry == RInt(CGRows[(b - 1) * size_m + a][first + column])
        IN  IF negated /\ column = 2 THEN RNeg(entry) ELSE entry]]]]

\* The two columns of the 4 x 4 matrix from column first + 1 on, the second
\* negated when negated holds, reshaped to (size_n, size_m, -1, size_j) and
\* transposed to (size_m, size_n, -1, size_j).
ReshapedBlock(size_m, size_n, size_j, first, negated) ==
    [a \in 1 .. size_m |-> [b \in 1 .. size_n |-> [x \in 1 .. (2 \div size_j) |-> [d \in 1 .. size_j |->
        LET column == (x - 1) * size_j + d
            entry == RMul(RInt(CGRows[(b - 1) * size_m + a][first + column]), InvSqrt2)
        IN  IF negated /\ column = 2 THEN RNeg(entry) ELSE entry]]]]

\* The branches of _clebsh_gordan_coeff, in the order of the code: the array
\* of shape (size_m, size_n, multiplicity, size_j).
clebsh_gordan_cases(N, size_m, size_n, size_j, m, n, j) ==
    IF m = 0 \/ n = 0
    THEN IF j = m + n THEN ReshapedEye(size_m, size_n, size_j, FALSE)
         ELSE NoCoefficients(size_m, size_n)
    ELSE IF N % 2 = 0 /\ (m = N \div 2 \/ n = N \div 2)
    THEN IF j = m + n THEN ReshapedEye(size_m, size_n, size_j, FALSE)
         ELSE IF j = N - m - n THEN ReshapedEye(size_m, size_n, size_j, size_j > 1)
         ELSE NoCoefficients(size_m, size_n)
    ELSE IF j = m + n THEN ReshapedBlock(size_m, size_n, size_j, 2, FALSE)
    ELSE IF j = N - m - n THEN ReshapedBlock(size_m, size_n, size_j, 2, TRUE)
    ELSE IF j = m - n THEN ReshapedBlock(size_m, size_n, size_j, 0, FALSE)
    ELSE IF j = n - m THEN ReshapedBlock(size_m, size_n, size_j, 0, TRUE)
    ELSE NoCoefficients(size_m, size_n)

\* The matrix the function _build_irrep_o2(j, k) builds returns at the
\* element with the value (flip, rotation) in radians.
build_irrep_o2(j, k, value) ==
    IF j \notin {0, 1} \/ ~(k >= 0) THEN Raise("AssertionError")
    ELSE IF j = 0
    THEN IF k = 0 THEN Ok(NdArray(Eye(1))) ELSE Raise("ValueError")
    ELSE IF k = 0
    THEN Ok(NdArray(<< <<RInt(IF Num(value.val[1]) # 0 THEN -1 ELSE 1)>> >>))
    ELSE Ok(NdArray(psichi(Num(value.val[2]), Num(value.val[1]), k)))

\* ---------------------------------------------------------------- objects

\* A group element: the group it belongs to and its value in the group's
\* canonical parametrization.
GroupElement(g, value) == [type |-> "GroupElement", val |-> <<g, value>>]

\* An irrep method that registers whatever frequency it is asked for.
CyclicGroup_irrep_unchecked(h, g, k) ==
    LET id == <<k>>
        n == h[g].N
        size == IF k = 0 THEN 1 ELSE IF n % 2 = 0 /\ k = n \div 2 THEN 1 ELSE 2
        irr == [cls |-> "IrreducibleRepresentation", group |-> g, id |-> id,
                name |-> <<"irrep", k>>, size |-> size,
                type |-> IF size = 1 THEN "R" ELSE "C", frequency |-> k]
    IN  IF id \in DOMAIN h[g].irreps
        THEN [heap |-> h, ret |-> Ok(PyRef(h[g].irreps[id]))]
        ELSE [heap |-> Append([h EXCEPT ![g].irreps = @ @@ (id :> Len(h) + 1)], irr),
              ret |-> Ok(PyRef(Len(h) + 1))]

\* CyclicGroup.irrep(k) on the group at g: the registry's entry, built first
\* when the id is new.
CyclicGroup_irrep(h, g, k) ==
    LET id == <<k>>
        n == h[g].N
        size == IF k = 0 THEN 1 ELSE IF n % 2 = 0 /\ k = n \div 2 THEN 1 ELSE 2
        irr == [cls |-> "IrreducibleRepresentation", group |-> g, id |-> id,
                name |-> <<"irrep", k>>, size |-> size,
                type |-> IF size = 1 THEN "R" ELSE "C", frequency |-> k]
    IN  IF id \in DOMAIN h[g].irreps
        THEN [heap |-> h, ret |-> Ok(PyRef(h[g].irreps[id]))]
        ELSE IF ~(0 <= k /\ k <= n \div 2)
        THEN [heap |-> h, ret |-> Raise("AssertionError")]
        ELSE [heap |-> Append([h EXCEPT ![g].irreps = @ @@ (id :> Len(h) + 1)], irr),
              ret |-> Ok(PyRef(Len(h) + 1))]

\* CyclicGroup._clebsh_gordan_coeff(m, n, j) on the group at g; the three
\* irreps are asked of the registry first, m, then n, then j.
CyclicGroup_clebsh_gordan_coeff(h, g, m, n, j) ==
    LET rho_m == CyclicGroup_irrep(h, g, m)
        rho_n == CyclicGroup_irrep(rho_m.heap, g, n)
        rho_j == CyclicGroup_irrep(rho_n.heap, g, j)
    IN  IF ~IsOk(rho_m.ret) THEN rho_m
        ELSE IF ~IsOk(rho_n.ret) THEN rho_n
        ELSE IF ~IsOk(rho_j.ret) THEN rho_j
        ELSE [heap |-> rho_j.heap,
              ret |-> Ok(NdArray(clebsh_gordan_cases(h[g].N,
                                     rho_j.heap[Num(rho_m.ret.val)].size,
                                     rho_j.heap[Num(rho_n.ret.val)].size,
                                     rho_j.heap[Num(rho_j.ret.val)].size, m, n, j)))]

\* A constructor that stops one frequency short: range(0, N // 2).
RECURSIVE CyclicGroup_build_representations_short(_, _, _)
CyclicGroup_build_representations_short(h, g, k) ==
    IF k >= h[g].N \div 2 THEN h
    ELSE CyclicGroup_build_representations_short(CyclicGroup_irrep(h, g, k).heap, g, k + 1)

\* for k in range(0, N // 2 + 1): self.irrep(k), from k on.
RECURSIVE CyclicGroup_build_representations(_, _, _)
CyclicGroup_build_representations(h, g, k) ==
    IF k > h[g].N \div 2 THEN h
    ELSE CyclicGroup_build_representations(CyclicGroup_irrep(h, g, k).heap, g, k + 1)

\* CyclicGroup(N): the heap with the new group and its irreps.
CyclicGroup_init(h, N) ==
    LET g == Len(h) + 1
        obj == [cls |-> "CyclicGroup", name |-> <<"C", N>>, N |-> N, rotation_order |-> N,
                identity |-> GroupElement(g, PyInt(0)), irreps |-> <<>>]
    IN  CyclicGroup_build_representations(Append(h, obj), g, 0)

\* The factory that constructs a group at every call.
CyclicGroup_generator_unmemoized(h, cache, N) ==
    IF ~(N > 0)
    THEN [heap |-> h, cache |-> cache, ret |-> Raise("AssertionError")]
    ELSE [heap |-> CyclicGroup_init(h, N), cache |-> (N :> Len(h) + 1) @@ cache,
          ret |-> Ok(PyRef(Len(h) + 1))]

\* A factory that builds the group of order |N| for a negative N.
CyclicGroup_generator_unsigned(h, cache, N) ==
    IF N \in DOMAIN cache
    THEN [heap |-> h, cache |-> cache, ret |-> Ok(PyRef(cache[N]))]
    ELSE IF N = 0
    THEN [heap |-> h, cache |-> cache, ret |-> Raise("AssertionError")]
    ELSE [heap |-> CyclicGroup_init(h, Abs(N)), cache |-> cache @@ (N :> Len(h) + 1),
          ret |-> Ok(PyRef(Len(h) + 1))]

\* CyclicGroup._generator(N).
CyclicGroup_generator(h, cache, N) ==
    IF N \in DOMAIN cache
    THEN [heap |-> h, cache |-> cache, ret |-> Ok(PyRef(cache[N]))]
    ELSE IF ~(N > 0)
    THEN [heap |-> h, cache |-> cache, ret |-> Raise("AssertionError")]
    ELSE [heap |-> CyclicGroup_init(h, N), cache |-> cache @@ (N :> Len(h) + 1),
          ret |-> Ok(PyRef(Len(h) + 1))]

\* The request that builds the irrep again and puts the new object in the
\* registry.
O2_irrep_rebuilt(h, g, j, k) ==
    LET id == <<j, k>>
        irr == [cls |-> "IrreducibleRepresentation", group |-> g, id |-> id,
                name |-> <<"irrep", j, k>>, size |-> IF k = 0 THEN 1 ELSE 2, type |-> "R",
                frequency |-> k, flip_frequency |-> j]
    IN  IF j \notin {0, 1} \/ ~(k >= 0)
        THEN [heap |-> h, ret |-> Raise("AssertionError")]
        ELSE IF j = 0 /\ k # 0
        THEN [heap |-> h, ret |-> Raise("ValueError")]
        ELSE [heap |-> Append([h EXCEPT ![g].irreps = (id :> Len(h) + 1) @@ @], irr),
              ret |-> Ok(PyRef(Len(h) + 1))]

\* O2.irrep(j, k) on the group at g: the registry's entry, built first when
\* the id is new; (0, k > 0) names no irrep.
O2_irrep(h, g, j, k) ==
    LET id == <<j, k>>
        size == IF k = 0 THEN 1 ELSE 2
        irr == [cls |-> "IrreducibleRepresentation", group |-> g, id |-> id,
                name |-> <<"irrep", j, k>>, size |-> size, type |-> "R",
                frequency |-> k, flip_frequency |-> j]
    IN  IF j \notin {0, 1} \/ ~(k >= 0)
        THEN [heap |-> h, ret |-> Raise("AssertionError")]
        ELSE IF id \in DOMAIN h[g].irreps
        THEN [heap |-> h, ret |-> Ok(PyRef(h[g].irreps[id]))]
        ELSE IF j = 0 /\ k # 0
        THEN [heap |-> h, ret |-> Raise("ValueError")]
        ELSE [heap |-> Append([h EXCEPT ![g].irreps = @ @@ (id :> Len(h) + 1)], irr),
              ret |-> Ok(PyRef(Len(h) + 1))]

\* for k in range(self._maximum_frequency + 1): self.irrep(1, k), from k on.
RECURSIVE O2_build_flip_irreps(_, _, _)
O2_build_flip_irreps(h, g, k) ==
    IF k > h[g].maximum_frequency THEN h
    ELSE O2_build_flip_irreps(O2_irrep(h, g, 1, k).heap, g, k + 1)

O2_build_representations(h, g) == O2_build_flip_irreps(O2_irrep(h, g, 0, 0).heap, g, 0)

\* O2(maximum_frequency): the heap with the new group and its irreps.
O2_init(h, maximum_frequency) ==
    LET g == Len(h) + 1
        obj == [cls |-> "O2", name |-> <<"O(2)">>, rotation_order |-> -1,
                maximum_frequency |-> maximum_frequency,
                identity |-> GroupElement(g, O2Pair(0, 0)),
                reflection |-> GroupElement(g, O2Pair(1, 0)), irreps |-> <<>>]
    IN  O2_build_representations(Append(h, obj), g)

\* A factory that sets the maximum frequency to whatever is asked for.
O2_generator_lowering(h, cached, maximum_frequency) ==
    IF cached = NoRef
    THEN IF ~(maximum_frequency >= 0)
         THEN [heap |-> h, cached |-> cached, ret |-> Raise("AssertionError")]
         ELSE [heap |-> O2_init(h, maximum_frequency), cached |-> Len(h) + 1,
               ret |-> Ok(PyRef(Len(h) + 1))]
    ELSE [heap |-> O2_build_representations(
                       [h EXCEPT ![cached].maximum_frequency = maximum_frequency], cached),
          cached |-> cached, ret |-> Ok(PyRef(cached))]

\* O2._generator(maximum_frequency): one instance, whose maximum frequency is
\* raised and whose irreps are built again when a larger one is asked for.
O2_generator(h, cached, maximum_frequency) ==
    IF cached = NoRef
    THEN IF ~(maximum_frequency >= 0)
         THEN [heap |-> h, cached |-> cached, ret |-> Raise("AssertionError")]
         ELSE [heap |-> O2_init(h, maximum_frequency), cached |-> Len(h) + 1,
               ret |-> Ok(PyRef(Len(h) + 1))]
    ELSE IF h[cached].maximum_frequency < maximum_frequency
    THEN [heap |-> O2_build_representations(
                       [h EXCEPT ![cached].maximum_frequency = maximum_frequency], cached),
          cached |-> cached, ret |-> Ok(PyRef(cached))]
    ELSE [heap |-> h, cached |-> cached, ret |-> Ok(PyRef(cached))]

\* self.element(value, param) of O(2): the value must be a member.
O2_element(g, value, param) ==
    LET member == O2_is_element(value, param)
    IN  IF ~IsOk(member) THEN member
        ELSE IF ~Num(member.val) THEN Raise("AssertionError")
        ELSE Ok(GroupElement(g, O2_change_param(value, param, "radians").val))

\* self.element(value, param) of a cyclic group: the value must be a member.
CyclicGroup_element(h, g, value, param) ==
    LET member == CyclicGroup_is_element(h[g].N, value, param)
    IN  IF ~IsOk(member) THEN member
        ELSE IF ~Num(member.val) THEN Raise("AssertionError")
        ELSE Ok(GroupElement(g, CyclicGroup_change_param(h[g].N, value, param, "int").val))

\* A list comprehension over calls: the first call that raises ends it.
Collected(results) ==
    IF \E i \in DOMAIN results : ~IsOk(results[i])
    THEN results[CHOOSE i \in DOMAIN results :
                    ~IsOk(results[i]) /\ \A k \in 1 .. (i - 1) : IsOk(results[k])]
    ELSE Ok(PyList([i \in DOMAIN results |-> results[i].val]))

\* CyclicGroup.sample(): self.element(np.random.randint(0, self.order())),
\* draw being what randint returned.
CyclicGroup_sample(h, g, draw) == CyclicGroup_element(h, g, PyInt(draw), "int")

\* A regular grid of the first N elements.
CyclicGroup_grid_consecutive(h, g, type, N, draws) ==
    IF type = "rand"
    THEN Collected([i \in 1 .. N |-> CyclicGroup_sample(h, g, draws[i])])
    ELSE IF type = "regular"
    THEN IF N = 0 THEN Raise("ZeroDivisionError")
         ELSE IF h[g].N % Abs(N) # 0 THEN Raise("AssertionError")
         ELSE Collected([i \in 1 .. N |-> CyclicGroup_element(h, g, PyInt(i - 1), "int")])
    ELSE Raise("ValueError")

\* CyclicGroup.grid(type, N) on the group at g; draws are the numbers randint
\* returns. order % N is 0 for a negative divisor as well, and range(N) is
\* empty then.
CyclicGroup_grid(h, g, type, N, draws) ==
    IF type = "rand"
    THEN Collected([i \in 1 .. N |-> CyclicGroup_sample(h, g, draws[i])])
    ELSE IF type = "regular"
    THEN IF N = 0 THEN Raise("ZeroDivisionError")
         ELSE IF h[g].N % Abs(N) # 0 THEN Raise("AssertionError")
         ELSE LET r == h[g].N \div Abs(N)
              IN  Collected([i \in 1 .. N |-> CyclicGroup_element(h, g, PyInt((i - 1) * r), "int")])
    ELSE Raise("ValueError")

\* The kinds of seed O2.grid is given: None, an int, a RandomState, anything else.
Seeds == {"None", "int", "RandomState", "other"}

\* O2.grid(N, type, seed) on the group at g; draws are the pairs (randint,
\* random() * 2pi) the generator returns.
O2_grid(g, N, type, seed, draws) ==
    IF type = "regular"
    THEN Collected([i \in 1 .. (2 * N) |->
                        IF i <= N
                        THEN O2_element(g, O2Pair(0, ((i - 1) * Turn) \div N), "radians")
                        ELSE O2_element(g, O2Pair(1, ((i - N - 1) * Turn) \div N), "radians")])
    ELSE IF type = "rand"
    THEN IF seed = "other" THEN Raise("AssertionError")
         ELSE Collected([i \in 1 .. N |->
                            O2_element(g, O2Pair(draws[i][1], draws[i][2]), "radians")])
    ELSE Raise("ValueError")

\* CyclicGroup.__eq__.
CyclicGroup_eq(h, g1, g2) ==
    /\ h[g1].cls = "CyclicGroup" /\ h[g2].cls = "CyclicGroup"
    /\ h[g1].name = h[g2].name /\ h[g1].N = h[g2].N

\* The closure _build_parent_map(G, order) returns, applied to e.
parent_mapping(h, G, order, e) ==
    CyclicGroup_element(h, G, PyInt((Num(e.val[2]) * h[G].N) \div order), "int")

\* The restriction that forgets to divide by the ratio.
child_mapping_unscaled(h, G, sg, e) ==
    IF ~CyclicGroup_eq(h, e.val[1], G) THEN Raise("AssertionError")
    ELSE LET i == Num(e.val[2])
             ratio == h[G].N \div h[sg].N
         IN  IF i % ratio # 0 THEN Ok(None)
             ELSE CyclicGroup_element(h, sg, PyInt(i), "int")

\* The closure _build_child_map(G, sg) returns, applied to e.
child_mapping(h, G, sg, e) ==
    IF ~CyclicGroup_eq(h, e.val[1], G) THEN Raise("AssertionError")
    ELSE LET i == Num(e.val[2])
             ratio == h[G].N \div h[sg].N
         IN  IF i % ratio # 0 THEN Ok(None)
             ELSE CyclicGroup_element(h, sg, PyInt(i \div ratio), "int")

\* A factory that hands out a group of rotations only under the dihedral key.
dihedral_group_of_rotations(h, others, N) ==
    LET key == <<"DihedralGroup", N>>
        obj == [cls |-> "SO2", name |-> <<"SO(2)">>, N |-> N, rotation_order |-> N,
                irreps |-> <<>>]
    IN  IF key \in DOMAIN others
        THEN [heap |-> h, others |-> others, ret |-> Ok(PyRef(others[key]))]
        ELSE IF ~(N > 0)
        THEN [heap |-> h, others |-> others, ret |-> Raise("AssertionError")]
        ELSE [heap |-> Append(h, obj), others |-> others @@ (key :> Len(h) + 1),
              ret |-> Ok(PyRef(Len(h) + 1))]

\* escnn.group.dihedral_group(N): the memoized instance of D_N, whose elements
\* are the pairs (flip, rotation) of ints.
dihedral_group(h, others, N) ==
    LET key == <<"DihedralGroup", N>>
        obj == [cls |-> "DihedralGroup", name |-> <<"D", N>>, N |-> N, rotation_order |-> N,
                irreps |-> <<>>]
    IN  IF key \in DOMAIN others
        THEN [heap |-> h, others |-> others, ret |-> Ok(PyRef(others[key]))]
        ELSE IF ~(N > 0)
        THEN [heap |-> h, others |-> others, ret |-> Raise("AssertionError")]
        ELSE [heap |-> Append(h, obj), others |-> others @@ (key :> Len(h) + 1),
              ret |-> Ok(PyRef(Len(h) + 1))]

\* escnn.group.so2_group(maximum_frequency): the memoized instance of SO(2),
\* whose elements are angles.
so2_group(h, others, maximum_frequency) ==
    LET key == <<"SO2">>
        obj == [cls |-> "SO2", name |-> <<"SO(2)">>, rotation_order |-> -1,
                maximum_frequency |-> maximum_frequency, irreps |-> <<>>]
    IN  IF key \in DOMAIN others
        THEN [heap |-> h, others |-> others, ret |-> Ok(PyRef(others[key]))]
        ELSE [heap |-> Append(h, obj), others |-> others @@ (key :> Len(h) + 1),
              ret |-> Ok(PyRef(Len(h) + 1))]

\* dn.element((flip, rotation)): a flip of {0, 1} and a rotation of [0, N).
DihedralGroup_element(h, g, flip, rotation) ==
    IF flip \in {0, 1} /\ 0 <= rotation /\ rotation < h[g].N
    THEN Ok(GroupElement(g, PyTuple(<<PyInt(flip), PyInt(rotation)>>)))
    ELSE Raise("AssertionError")

\* so2.element(rotation, 'radians') of SO(2): the angle in [0, 2pi).
SO2_element(g, rotation) ==
    IF rotation.type = "float" THEN Ok(GroupElement(g, PyFloat(Num(rotation) % Turn)))
    ELSE Raise("AssertionError")

\* The closure o2_to_so2(so2) returns, applied to e.
o2_to_so2(h, so2, e) ==
    IF h[e.val[1]].cls # "O2" THEN Raise("AssertionError")
    ELSE LET flip == Num(e.val[2].val[1])
             rotation == e.val[2].val[2]
             made == IF h[so2].cls = "CyclicGroup" THEN CyclicGroup_element(h, so2, rotation, "radians")
                     ELSE SO2_element(so2, rotation)
         IN  IF flip = 0
             THEN IF made.exc = "ValueError" THEN Ok(None) ELSE made
             ELSE Ok(None)

\* The closure so2_to_o2(o2) returns, applied to e.
so2_to_o2(h, o2, e) ==
    IF h[e.val[1]].cls \notin {"SO2", "CyclicGroup"} THEN Raise("AssertionError")
    ELSE LET radians == IF h[e.val[1]].cls = "CyclicGroup"
                        THEN CyclicGroup_change_param(h[e.val[1]].N, e.val[2], "int", "radians").val
                        ELSE e.val[2]
         IN  O2_element(o2, PyTuple(<<PyInt(0), radians>>), "radians")

\* The closure o2_to_flip(axis, flip) returns, applied to e.
o2_to_flip(h, axis, flip, e) ==
    IF h[e.val[1]].cls # "O2" THEN Raise("AssertionError")
    ELSE LET f == Num(e.val[2].val[1])
             rot == Num(e.val[2].val[2])
         IN  IF f = 0 /\ cycle_isclose(rot, 0, Turn) THEN Ok(h[flip].identity)
             ELSE IF f = 1 /\ cycle_isclose(rot, axis, Turn)
             THEN CyclicGroup_element(h, flip, PyInt(1), "int")
             ELSE Ok(None)

\* The closure flip_to_o2(axis, o2) returns, applied to e.
flip_to_o2(h, axis, o2, e) ==
    IF ~(h[e.val[1]].cls = "CyclicGroup" /\ h[e.val[1]].N = 2) THEN Raise("AssertionError")
    ELSE IF Num(e.val[2]) = 0 THEN Ok(h[o2].identity)
    ELSE O2_element(o2, O2Pair(1, axis), "radians")

\* The closure o2_to_dn(axis, dn) returns, applied to e.
o2_to_dn(h, axis, dn, e) ==
    IF h[e.val[1]].cls # "O2" THEN Raise("AssertionError")
    ELSE LET f == Num(e.val[2].val[1])
             rot == Num(e.val[2].val[2])
             step == Turn \div h[dn].rotation_order
         IN  IF cycle_isclose(rot - f * axis, 0, step)
             THEN DihedralGroup_element(h, dn, f, (rot - f * axis) \div step)
             ELSE Ok(None)

\* The closure dn_to_o2(axis, o2) returns, applied to e.
dn_to_o2(h, axis, o2, e) ==
    IF h[e.val[1]].cls # "DihedralGroup" THEN Raise("AssertionError")
    ELSE LET f == Num(e.val[2].val[1])
             rot == Num(e.val[2].val[2])
         IN  O2_element(o2, O2Pair(f, (rot * Turn) \div h[e.val[1]].rotation_order + f * axis),
                        "radians")

\* The closure utils.build_adjoint_map(G, g) returns, applied to e: g e g^-1.
adjoint_map(o2, g, e) ==
    LET ge == O2_combine(g, e.val[2], "radians", "None", "None")
        inverse == O2_inverse(g, "radians")
    IN  O2_element(o2, O2_combine(ge.val, inverse.val, "radians", "None", "None").val, "radians")

NoMaps == [kind |-> "none"]

\* CyclicGroup._subgroup(id) on the group at g.
CyclicGroup_subgroup(h, cache, g, id) ==
    LET unchanged(exc) == [heap |-> h, cache |-> cache, maps |-> NoMaps, ret |-> Raise(exc)]
        order == Num(id)
    IN  IF id.type # "int" THEN unchanged("AssertionError")
        ELSE IF order = 0 THEN unchanged("ZeroDivisionError")
        ELSE IF h[g].N % Abs(order) # 0 THEN unchanged("AssertionError")
        ELSE LET made == CyclicGroup_generator(h, cache, order)
             IN  IF ~IsOk(made.ret) THEN unchanged(made.ret.exc)
                 ELSE [heap |-> made.heap, cache |-> made.cache,
                       maps |-> [kind |-> "cyclic", G |-> g, sg |-> Num(made.ret.val), order |-> order],
                       ret |-> Ok(PyTuple(<<made.ret.val, "parent_mapping", "child_mapping">>))]

\* The change of basis and the ids only: frequency modulo order, never folded.
restricted_frequency_unfolded(size, frequency, order) ==
    [f |-> frequency % order, change_of_basis |-> Eye(size)]

\* f = frequency % order, folded to order - f past order / 2, and the change
\* of basis that goes with it.
restricted_frequency(size, frequency, order) ==
    IF 2 * (frequency % order) > order
    THEN [f |-> order - (frequency % order),
          change_of_basis |-> << <<RInt(1), RInt(0)>>, <<RInt(0), RInt(-1)>> >>]
    ELSE [f |-> frequency % order, change_of_basis |-> Eye(size)]

\* CyclicGroup._restrict_irrep(irrep, id) on the group at g: the pair of
\* the change of basis and the list of the ids of the subgroup's irreps.
CyclicGroup_restrict_irrep(h, cache, g, irrep, id) ==
    LET irr == CyclicGroup_irrep(h, g, irrep[1])
        sub == CyclicGroup_subgroup(irr.heap, cache, g, id)
    IN  IF ~IsOk(irr.ret) THEN [heap |-> irr.heap, cache |-> cache, ret |-> irr.ret]
        ELSE IF ~IsOk(sub.ret) THEN [heap |-> sub.heap, cache |-> sub.cache, ret |-> sub.ret]
        ELSE LET size == sub.heap[Num(irr.ret.val)].size
                 folded == restricted_frequency(size, sub.heap[Num(irr.ret.val)].frequency, Num(id))
                 r == <<folded.f>>
                 small == CyclicGroup_irrep(sub.heap, Num(sub.ret.val.val[1]), folded.f)
             IN  IF ~IsOk(small.ret) THEN [heap |-> small.heap, cache |-> sub.cache, ret |-> small.ret]
                 ELSE [heap |-> small.heap, cache |-> sub.cache,
                       ret |-> Ok(PyTuple(<<NdArray(folded.change_of_basis),
                                    PyList(IF small.heap[Num(small.ret.val)].size < size
                                           THEN <<r, r>> ELSE <<r>>)>>))]

\* O2._subgroup(id) on the group at g.
O2_subgroup(h, cyclic, cached, others, g, id) ==
    LET out(hh, cc, oo, mm, ret) ==
            [heap |-> hh, cyclic |-> cc, others |-> oo, maps |-> mm, ret |-> ret]
        failed(exc) == out(h, cyclic, others, NoMaps, Raise(exc))
        triple(sg) == Ok(PyTuple(<<sg, "parent_mapping", "child_mapping">>))
    IN  IF ~(id.type = "tuple" /\ Len(id.val) = 2) THEN failed("AssertionError")
        ELSE IF id.val[1].type \notin {"NoneType", "float"} THEN failed("AssertionError")
        ELSE IF id.val[2].type # "int" THEN failed("AssertionError")
        ELSE LET order == Num(id.val[2])
                 none == id.val[1].type = "NoneType"
                 axis == IF none THEN 0 ELSE Num(id.val[1])
             IN  IF ~(none \/ (0 <= axis /\ axis <= Turn)) THEN failed("AssertionError")
                 ELSE IF ~(order = -1 \/ order > 0) THEN failed("AssertionError")
                 ELSE IF ~none /\ order = -1
                 THEN LET made == O2_generator(h, cached, h[g].maximum_frequency)
                      IN  out(made.heap, cyclic, others,
                              [kind |-> "adjoint", G |-> g, sg |-> Num(made.ret.val), axis |-> axis],
                              triple(made.ret.val))
                 ELSE IF none /\ order = -1
                 THEN LET made == so2_group(h, others, h[g].maximum_frequency)
                      IN  out(made.heap, cyclic, made.others,
                              [kind |-> "so2", G |-> g, sg |-> Num(made.ret.val), axis |-> axis],
                              triple(made.ret.val))
                 ELSE IF ~none /\ order = 1
                 THEN LET made == CyclicGroup_generator(h, cyclic, 2)
                      IN  out(made.heap, made.cache, others,
                              [kind |-> "flip", G |-> g, sg |-> Num(made.ret.val), axis |-> axis],
                              triple(made.ret.val))
                 ELSE IF none
                 THEN LET made == CyclicGroup_generator(h, cyclic, order)
                      IN  out(made.heap, made.cache, others,
                              [kind |-> "so2", G |-> g, sg |-> Num(made.ret.val), axis |-> axis],
                              triple(made.ret.val))
                 ELSE IF ~none /\ order > 1
                 THEN LET made == dihedral_group(h, others, order)
                      IN  out(made.heap, cyclic, made.others,
                              [kind |-> "dn", G |-> g, sg |-> Num(made.ret.val), axis |-> axis],
                              triple(made.ret.val))
                 ELSE failed("ValueError")

\* DihedralGroup.irrep(j, k) on the group at g: the irrep registered under
\* (j, k), built and registered on its first request.
DihedralGroup_irrep(h, g, j, k) ==
    LET id == <<j, k>>
        n == h[g].N
        size == IF k = 0 THEN 1 ELSE IF n % 2 = 0 /\ k = n \div 2 THEN 1 ELSE 2
        irr == [cls |-> "IrreducibleRepresentation", group |-> g, id |-> id,
                name |-> <<"irrep", j, k>>, size |-> size, type |-> "R",
                frequency |-> k, flip_frequency |-> j]
    IN  IF id \in DOMAIN h[g].irreps
        THEN [heap |-> h, ret |-> Ok(PyRef(h[g].irreps[id]))]
        ELSE IF j \notin {0, 1} \/ ~(0 <= k /\ 2 * k <= n)
        THEN [heap |-> h, ret |-> Raise("AssertionError")]
        ELSE IF j = 0 /\ size = 2
        THEN [heap |-> h, ret |-> Raise("ValueError")]
        ELSE [heap |-> Append([h EXCEPT ![g].irreps = @ @@ (id :> Len(h) + 1)], irr),
              ret |-> Ok(PyRef(Len(h) + 1))]

\* The list of the ids below L only: range(L) in place of range(L + 1).
CyclicGroup_bl_irreps_below(h, g, L) ==
    IF ~(0 <= L /\ L <= h[g].N \div 2) THEN Raise("AssertionError")
    ELSE Ok(PyList([i \in 1 .. L |-> <<i - 1>>]))

\* CyclicGroup.bl_irreps(L) on the group at g.
CyclicGroup_bl_irreps(h, g, L) ==
    IF ~(0 <= L /\ L <= h[g].N \div 2) THEN Raise("AssertionError")
    ELSE Ok(PyList([i \in 1 .. (L + 1) |-> <<i - 1>>]))

\* O2.bl_irreps(L).
O2_bl_irreps(L) ==
    IF ~(0 <= L) THEN Raise("AssertionError")
    ELSE Ok(PyList(<< <<0, 0>> >> \o [i \in 1 .. (L + 1) |-> <<1, i - 1>>]))

\* The call super()._induced_from_irrep(subgroup_id, repr, representatives)
\* that O2._induced_from_irrep ends in, as the value it stands for.
Group_induced_from_irrep(subgroup_id, repr, representatives) ==
    Ok([type |-> "Group._induced_from_irrep", val |-> <<subgroup_id, repr, representatives>>])

\* O2._induced_from_irrep(subgroup_id, repr, representatives) on the group at g.
O2_induced_from_irrep(h, g, subgroup_id, repr, representatives) ==
    IF representatives = None
    THEN IF subgroup_id = PyTuple(<<None, PyInt(-1)>>)
         THEN Group_induced_from_irrep(subgroup_id, repr, PyList(<<h[g].identity, h[g].reflection>>))
         ELSE Raise("ValueError")
    ELSE Group_induced_from_irrep(subgroup_id, repr, representatives)

\* What _restrict_irrep returns after the subgroup call sub: the heap hh and
\* the pair of the change of basis and the list of ids.
restricted(hh, sub, change_of_basis, irreps) ==
    [heap |-> hh, cyclic |-> sub.cyclic, others |-> sub.others,
     ret |-> Ok(PyTuple(<<NdArray(change_of_basis), PyList(irreps)>>))]

\* The end of the branches of O2._restrict_irrep that ask the subgroup for
\* its irrep: small is what sg.irrep(*r) returned, first the id listed before
\* r under a 2-dimensional parent.
restricted_listing(rho, sub, small, change_of_basis, first, r) ==
    IF ~IsOk(small.ret)
    THEN [heap |-> small.heap, cyclic |-> sub.cyclic, others |-> sub.others, ret |-> small.ret]
    ELSE restricted(small.heap, sub, change_of_basis,
                    IF small.heap[Num(small.ret.val)].size < rho.size THEN <<first, r>> ELSE <<r>>)

\* The branches of O2._restrict_irrep for the irrep rho, after the subgroup
\* call sub returned the subgroup at sg.
O2_restrict_irrep_branches(rho, sub, sg, none, axis, order) ==
    IF ~none /\ order = -1
    THEN restricted(sub.heap, sub,
                    IF rho.size = 2
                    THEN MatMul(psi(axis \div 2, rho.frequency), Eye(rho.size))
                    ELSE Eye(rho.size),
                    <<rho.id>>)
    ELSE IF none /\ order = -1
    THEN restricted(sub.heap, sub, Eye(rho.size), << <<rho.frequency>> >>)
    ELSE IF ~none /\ order = 1
    THEN IF rho.size > 1
         THEN restricted(sub.heap, sub, psi(axis \div 2, rho.frequency),
                         << <<0>>, <<rho.flip_frequency>> >>)
         ELSE restricted(sub.heap, sub, Eye(rho.size), << <<rho.flip_frequency>> >>)
    ELSE IF none /\ order > 0
    THEN LET folded == restricted_frequency(rho.size, rho.frequency, order)
         IN  restricted_listing(rho, sub, CyclicGroup_irrep(sub.heap, sg, folded.f),
                                folded.change_of_basis, <<folded.f>>, <<folded.f>>)
    ELSE IF ~none /\ order > 1
    THEN LET folded == restricted_frequency(rho.size, rho.frequency, order)
         IN  restricted_listing(rho, sub,
                                DihedralGroup_irrep(sub.heap, sg, rho.flip_frequency, folded.f),
                                IF rho.size = 2
                                THEN MatMul(psi(axis \div 2, rho.frequency), folded.change_of_basis)
                                ELSE folded.change_of_basis,
                                <<0, folded.f>>, <<rho.flip_frequency, folded.f>>)
    ELSE [heap |-> sub.heap, cyclic |-> sub.cyclic, others |-> sub.others,
          ret |-> Raise("ValueError")]

\* O2._restrict_irrep after self.irrep(*irrep) returned irr: the subgroup
\* call, then the branches.
O2_restrict_irrep_of(irr, sub, id) ==
    IF ~IsOk(sub.ret)
    THEN [heap |-> sub.heap, cyclic |-> sub.cyclic, others |-> sub.others, ret |-> sub.ret]
    ELSE O2_restrict_irrep_branches(sub.heap[Num(irr.ret.val)], sub, Num(sub.ret.val.val[1]),
                                    id.val[1].type = "NoneType",
                                    IF id.val[1].type = "NoneType" THEN 0 ELSE Num(id.val[1]),
                                    Num(id.val[2]))

\* O2._restrict_irrep(irrep, id) on the group at g: the pair of the change
\* of basis and the list of the ids of the subgroup's irreps.
O2_restrict_irrep(h, cyclic, cached, others, g, irrep, id) ==
    LET irr == O2_irrep(h, g, irrep[1], irrep[2])
    IN  IF ~IsOk(irr.ret)
        THEN [heap |-> irr.heap, cyclic |-> cyclic, others |-> others, ret |-> irr.ret]
        ELSE O2_restrict_irrep_of(irr, O2_subgroup(irr.heap, cyclic, cached, others, g, id), id)

\* The inclusion of the triple m, applied to the subgroup element e.
O2_parent_mapping(h, m, e) ==
    IF m.kind = "adjoint" THEN adjoint_map(m.G, O2Pair(0, m.axis \div 2), e)
    ELSE IF m.kind = "so2" THEN so2_to_o2(h, m.G, e)
    ELSE IF m.kind = "flip" THEN flip_to_o2(h, m.axis, m.G, e)
    ELSE dn_to_o2(h, m.axis, m.G, e)

\* The restriction of the triple m, applied to the element e of O(2).
O2_child_mapping(h, m, e) ==
    IF m.kind = "adjoint" THEN adjoint_map(m.G, O2Pair(0, -(m.axis \div 2)), e)
    ELSE IF m.kind = "so2" THEN o2_to_so2(h, m.sg, e)
    ELSE IF m.kind = "flip" THEN o2_to_flip(h, m.axis, m.sg, e)
    ELSE o2_to_dn(h, m.axis, m.sg, e)

\* ------------------------------------------------- behaviours: CyclicGroup

\* The value of the integer x in the parametrization param of C_N.
Encoding(N, x, param) ==
    IF param = "int" THEN PyInt(x)
    ELSE IF param = "radians" THEN PyFloat((x * Turn) \div N)
    ELSE NdArray(RotationMatrix((x * Turn) \div N))

\* The integers a call is given: the elements, and integers on both sides of them.
Ints(N) == (-N) .. (2 * N - 1)

\* The operands of a two-operand call: with param1 or param2 given, the elements only.
Operands(N, param1, param2) ==
    IF param1 = "None" /\ param2 = "None" THEN Ints(N) ELSE 0 .. (N - 1)

OptionalParams == CyclicGroup_PARAMETRIZATIONS \cup {"None"}

Param(param, default) == IF param = "None" THEN default ELSE param

\* The caller is between two calls, or holds what its last call returned.
Idle == [op |-> "idle", args |-> <<>>, ret |-> Ok(None)]

Returns(op, args, ret) == call' = [op |-> op, args |-> args, ret |-> ret]

InitCyclic ==
    \E n \in 1 .. MaxN :
        LET made == CyclicGroup_generator(<<>>, <<>>, n)
        IN  /\ heap = made.heap
            /\ CyclicGroup_cached_group_instances = made.cache
            /\ O2_cached_group_instance = NoRef
            /\ other_cached_group_instances = <<>>
            /\ self = Num(made.ret.val)
            /\ maps = NoMaps
            /\ call = Idle

pure == <<heap, CyclicGroup_cached_group_instances, O2_cached_group_instance,
          other_cached_group_instances, self, maps>>

CyclicCombine ==
    /\ call = Idle
    /\ \E param \in CyclicGroup_PARAMETRIZATIONS, param1 \in OptionalParams, param2 \in OptionalParams :
       \E x \in Operands(heap[self].N, param1, param2), y \in Operands(heap[self].N, param1, param2) :
        LET N == heap[self].N
            e1 == Encoding(N, x, Param(param1, param))
            e2 == Encoding(N, y, Param(param2, param))
        IN  /\ Returns("_combine", <<e1, e2, param, param1, param2>>,
                       CyclicGroup_combine(N, e1, e2, param, param1, param2))
            /\ UNCHANGED pure

CyclicInverse ==
    /\ call = Idle
    /\ \E param \in CyclicGroup_PARAMETRIZATIONS, x \in Ints(heap[self].N) :
        LET N == heap[self].N
            e == Encoding(N, x, param)
        IN  /\ Returns("_inverse", <<e, param>>, CyclicGroup_inverse(N, e, param))
            /\ UNCHANGED pure

CyclicEqual ==
    /\ call = Idle
    /\ \E param \in CyclicGroup_PARAMETRIZATIONS, param1 \in OptionalParams, param2 \in OptionalParams :
       \E x \in Operands(heap[self].N, param1, param2), y \in Operands(heap[self].N, param1, param2) :
        LET N == heap[self].N
            e1 == Encoding(N, x, Param(param1, param))
            e2 == Encoding(N, y, Param(param2, param))
        IN  /\ Returns("_equal", <<e1, e2, param, param1, param2>>,
                       CyclicGroup_equal(N, e1, e2, param, param1, param2))
            /\ UNCHANGED pure

\* Values that are no element in one parametrization or in all of them: an
\* angle of one grid step, which is a multiple of no 2pi/N; None; the matrix
\* diag(1, -1) of a reflection; a 1x1 matrix; a pair whose flip is 2; a pair
\* whose rotation is an int.
Malformed ==
    {PyFloat(1), None, NdArray(<< <<0, Zero>>, <<Zero, Pi>> >>), NdArray(<< <<0>> >>),
     PyTuple(<<PyInt(2), PyFloat(0)>>), PyTuple(<<PyInt(0), PyInt(0)>>)}

CyclicIsElement ==
    /\ call = Idle
    /\ \E param \in CyclicGroup_PARAMETRIZATIONS :
       \E e \in {Encoding(heap[self].N, x, p) : x \in Ints(heap[self].N), p \in {param, "int"}}
                    \cup Malformed :
        /\ Returns("_is_element", <<e, param>>, CyclicGroup_is_element(heap[self].N, e, param))
        /\ UNCHANGED pure

CyclicChangeParam ==
    /\ call = Idle
    /\ \E p_from \in CyclicGroup_PARAMETRIZATIONS, p_to \in CyclicGroup_PARAMETRIZATIONS :
       \E x \in Ints(heap[self].N) :
        LET N == heap[self].N
            e == Encoding(N, x, p_from)
        IN  /\ Returns("_change_param", <<e, p_from, p_to>>, CyclicGroup_change_param(N, e, p_from, p_to))
            /\ UNCHANGED pure

CyclicSubgroup ==
    /\ call = Idle
    /\ heap[self].cls = "CyclicGroup"
    /\ \E id \in (-MaxN) .. MaxN :
        LET made == CyclicGroup_subgroup(heap, CyclicGroup_cached_group_instances, self, PyInt(id))
        IN  /\ heap' = made.heap
            /\ CyclicGroup_cached_group_instances' = made.cache
            /\ maps' = IF IsOk(made.ret) THEN made.maps ELSE maps
            /\ Returns("_subgroup", <<PyInt(id)>>, made.ret)
            /\ UNCHANGED <<O2_cached_group_instance, other_cached_group_instances, self>>

CyclicInclusion ==
    /\ call = Idle
    /\ maps.kind = "cyclic"
    /\ \E s \in 0 .. heap[maps.sg].N - 1 :
        LET e == GroupElement(maps.sg, PyInt(s))
        IN  /\ Returns("parent_mapping", <<e>>, parent_mapping(heap, maps.G, maps.order, e))
            /\ UNCHANGED pure

CyclicRestriction ==
    /\ call = Idle
    /\ maps.kind = "cyclic"
    /\ \E p \in 0 .. heap[self].N - 1 :
        LET e == GroupElement(self, PyInt(p))
        IN  /\ Returns("child_mapping", <<e>>, child_mapping(heap, maps.G, maps.sg, e))
            /\ UNCHANGED pure

\* The caller drops the result and goes on to its next call.
Return == call # Idle /\ call' = Idle /\ UNCHANGED pure

NextCyclic ==
    \/ Return
    \/ CyclicCombine
    \/ CyclicInverse
    \/ CyclicEqual
    \/ CyclicIsElement
    \/ CyclicChangeParam
    \/ CyclicSubgroup
    \/ CyclicInclusion
    \/ CyclicRestriction

SpecCyclic == InitCyclic /\ [][NextCyclic]_vars

\* ---------------------------------------------------------- behaviours: O2

\* The frequency O(2) is built with in the behaviours that make calls on it.
DefaultFrequency == 3

\* The angles a call is given: the multiples of pi/MaxN of three turns.
Angles == {k * (Turn \div (2 * MaxN)) : k \in (-2 * MaxN) .. (4 * MaxN - 1)}

\* The value of the element (flip, rotation) in the parametrization param.
O2Encoding(flip, rotation, param) ==
    IF param = "radians" THEN O2Pair(flip, rotation)
    ELSE PyTuple(<<PyInt(flip), NdArray(RotationMatrix(rotation))>>)

InitO2 ==
    LET made == O2_generator(<<>>, NoRef, DefaultFrequency)
    IN  /\ heap = made.heap
        /\ CyclicGroup_cached_group_instances = <<>>
        /\ O2_cached_group_instance = made.cached
        /\ other_cached_group_instances = <<>>
        /\ self = made.cached
        /\ maps = NoMaps
        /\ call = Idle

O2Combine ==
    /\ call = Idle
    /\ \E param \in O2_PARAMETRIZATIONS, j1 \in {0, 1}, j2 \in {0, 1}, t1 \in Angles, t2 \in Angles :
        LET e1 == O2Encoding(j1, t1, param)
            e2 == O2Encoding(j2, t2, param)
        IN  /\ Returns("_combine", <<e1, e2, param, "None", "None">>,
                       O2_combine(e1, e2, param, "None", "None"))
            /\ UNCHANGED pure

O2Inverse ==
    /\ call = Idle
    /\ \E param \in O2_PARAMETRIZATIONS, j \in {0, 1}, t \in Angles :
        LET e == O2Encoding(j, t, param)
        IN  /\ Returns("_inverse", <<e, param>>, O2_inverse(e, param))
            /\ UNCHANGED pure

O2Equal ==
    /\ call = Idle
    /\ \E param \in O2_PARAMETRIZATIONS, j1 \in {0, 1}, j2 \in {0, 1}, t1 \in Angles, t2 \in Angles :
        LET e1 == O2Encoding(j1, t1, param)
            e2 == O2Encoding(j2, t2, param)
        IN  /\ Returns("_equal", <<e1, e2, param, "None", "None">>,
                       O2_equal(e1, e2, param, "None", "None"))
            /\ UNCHANGED pure

O2IsElement ==
    /\ call = Idle
    /\ \E param \in O2_PARAMETRIZATIONS :
       \E e \in {O2Encoding(j, t, p) : j \in {0, 1}, t \in Angles, p \in {param, "radians"}}
                    \cup Malformed :
        /\ Returns("_is_element", <<e, param>>, O2_is_element(e, param))
        /\ UNCHANGED pure

O2ChangeParam ==
    /\ call = Idle
    /\ \E p_from \in O2_PARAMETRIZATIONS, p_to \in O2_PARAMETRIZATIONS, j \in {0, 1}, t \in Angles :
        LET e == O2Encoding(j, t, p_from)
        IN  /\ Returns("_change_param", <<e, p_from, p_to>>, O2_change_param(e, p_from, p_to))
            /\ UNCHANGED pure

NextO2 ==
    \/ Return
    \/ O2Combine
    \/ O2Inverse
    \/ O2Equal
    \/ O2IsElement
    \/ O2ChangeParam

SpecO2 == InitO2 /\ [][NextO2]_vars

\* ------------------------------------------------ behaviours: O2 subgroups

\* The largest rotation order of a subgroup that is asked for.
MaxOrder == 3

\* The number of groups a behaviour constructs, the parent included.
MaxGroups == 2

LCM(a, b) == (a * b) \div GCD(a, b)

\* The angles of the elements the maps are given: the multiples of the
\* smallest step that holds the quarter turns and every subgroup's rotations.
SubgroupGrid == LCM(4, LCMUpTo(MaxOrder))
SubgroupAngles == {k * (Turn \div SubgroupGrid) : k \in 0 .. (SubgroupGrid - 1)}

\* The ids _subgroup is given: an axis that is None or a quarter turn, from
\* one below 0 to one above 2pi, with an order; and an id that is no tuple.
SubgroupIds ==
    {PyTuple(<<axis, PyInt(order)>>) :
        axis \in {None} \cup {PyFloat(k * (Turn \div 4)) : k \in (-1) .. 5},
        order \in (-2) .. MaxOrder}
    \cup {PyInt(2)}

Groups(h) == {i \in DOMAIN h : h[i].cls \in {"CyclicGroup", "O2", "SO2", "DihedralGroup"}}

\* Every element of the group at g.
Elements(h, g) ==
    IF h[g].cls = "CyclicGroup" THEN {GroupElement(g, PyInt(s)) : s \in 0 .. (h[g].N - 1)}
    ELSE IF h[g].cls = "DihedralGroup"
    THEN {GroupElement(g, PyTuple(<<PyInt(f), PyInt(r)>>)) : f \in {0, 1}, r \in 0 .. (h[g].N - 1)}
    ELSE IF h[g].cls = "SO2" THEN {GroupElement(g, PyFloat(t)) : t \in SubgroupAngles}
    ELSE {GroupElement(g, O2Pair(f, t)) : f \in {0, 1}, t \in SubgroupAngles}

O2Subgroup ==
    /\ call = Idle
    /\ heap[self].cls = "O2"
    /\ Cardinality(Groups(heap)) < MaxGroups
    /\ \E id \in SubgroupIds :
        LET made == O2_subgroup(heap, CyclicGroup_cached_group_instances, O2_cached_group_instance,
                                other_cached_group_instances, self, id)
        IN  /\ heap' = made.heap
            /\ CyclicGroup_cached_group_instances' = made.cyclic
            /\ other_cached_group_instances' = made.others
            /\ maps' = IF IsOk(made.ret) THEN made.maps ELSE maps
            /\ Returns("_subgroup", <<id>>, made.ret)
            /\ UNCHANGED <<O2_cached_group_instance, self>>

O2Inclusion ==
    /\ call = Idle
    /\ maps.kind \in {"adjoint", "so2", "flip", "dn"}
    /\ \E e \in Elements(heap, maps.sg) :
        /\ Returns("parent_mapping", <<e>>, O2_parent_mapping(heap, maps, e))
        /\ UNCHANGED pure

O2Restriction ==
    /\ call = Idle
    /\ maps.kind \in {"adjoint", "so2", "flip", "dn"}
    /\ \E e \in Elements(heap, maps.G) :
        /\ Returns("child_mapping", <<e>>, O2_child_mapping(heap, maps, e))
        /\ UNCHANGED pure

NextO2Subgroups ==
    \/ Return
    \/ O2Subgroup
    \/ O2Inclusion
    \/ O2Restriction

SpecO2Subgroups == InitO2 /\ [][NextO2Subgroups]_vars

\* ---------------------------------------- behaviours: CyclicGroup irreps

\* psi.__call__(element) of the irrep at the reference psi: its matrix.
Representation_call(h, irr, e) ==
    IF e.val[1] # h[irr].group THEN Raise("AssertionError")
    ELSE IF h[h[irr].group].cls = "O2"
    THEN build_irrep_o2(h[irr].flip_frequency, h[irr].frequency, e.val[2])
    ELSE Ok(NdArray(build_irrep_cn(h[h[irr].group].N, h[irr].frequency, e.val[2])))

\* psi.character(element) of the irrep at the reference psi.
Representation_character(h, irr, e) ==
    IF e.val[1] # h[irr].group THEN Raise("AssertionError")
    ELSE Ok(PyFloat(build_char_cn(h[h[irr].group].N, h[irr].frequency, e.val[2])))

CyclicIrrepCall ==
    /\ call = Idle
    /\ \E id \in DOMAIN heap[self].irreps, e \in Elements(heap, self) :
        /\ Returns("__call__", <<PyRef(heap[self].irreps[id]), e>>,
                   Representation_call(heap, heap[self].irreps[id], e))
        /\ UNCHANGED pure

CyclicCharacter ==
    /\ call = Idle
    /\ \E id \in DOMAIN heap[self].irreps, e \in Elements(heap, self) :
        /\ Returns("character", <<PyRef(heap[self].irreps[id]), e>>,
                   Representation_character(heap, heap[self].irreps[id], e))
        /\ UNCHANGED pure

CyclicTensorProduct ==
    /\ call = Idle
    /\ \E J \in 0 .. (heap[self].N \div 2), l \in 0 .. (heap[self].N \div 2) :
        /\ Returns("_tensor_product_irreps", <<J, l>>,
                   CyclicGroup_tensor_product_irreps(heap[self].N, J, l))
        /\ UNCHANGED pure

CyclicClebshGordan ==
    /\ call = Idle
    /\ \E m \in 0 .. (heap[self].N \div 2), n \in 0 .. (heap[self].N \div 2),
          j \in 0 .. (heap[self].N \div 2) :
        LET made == CyclicGroup_clebsh_gordan_coeff(heap, self, m, n, j)
        IN  /\ Returns("_clebsh_gordan_coeff", <<m, n, j>>, made.ret)
            /\ heap' = made.heap
            /\ UNCHANGED <<CyclicGroup_cached_group_instances, O2_cached_group_instance,
                           other_cached_group_instances, self, maps>>

NextCyclicIrreps ==
    \/ Return
    \/ CyclicIrrepCall
    \/ CyclicCharacter
    \/ CyclicTensorProduct
    \/ CyclicClebshGordan

SpecCyclicIrreps == InitCyclic /\ [][NextCyclicIrreps]_vars

\* ------------------------------------------- behaviours: irrep restriction

InitRestriction == InitCyclic \/ InitO2

CyclicRestrictIrrep ==
    /\ call = Idle
    /\ heap[self].cls = "CyclicGroup"
    /\ \E k \in 0 .. (heap[self].N \div 2 + 1), id \in 0 .. heap[self].N :
        LET made == CyclicGroup_restrict_irrep(heap, CyclicGroup_cached_group_instances, self,
                                               <<k>>, PyInt(id))
        IN  /\ heap' = made.heap
            /\ CyclicGroup_cached_group_instances' = made.cache
            /\ Returns("_restrict_irrep", << <<k>>, PyInt(id)>>, made.ret)
            /\ UNCHANGED <<O2_cached_group_instance, other_cached_group_instances, self, maps>>

O2RestrictIrrep ==
    /\ call = Idle
    /\ heap[self].cls = "O2"
    /\ Cardinality(Groups(heap)) < MaxGroups
    /\ \E irrep \in (DOMAIN heap[self].irreps) \cup {<<0, 1>>}, id \in SubgroupIds :
        LET made == O2_restrict_irrep(heap, CyclicGroup_cached_group_instances,
                                      O2_cached_group_instance, other_cached_group_instances,
                                      self, irrep, id)
        IN  /\ heap' = made.heap
            /\ CyclicGroup_cached_group_instances' = made.cyclic
            /\ other_cached_group_instances' = made.others
            /\ Returns("_restrict_irrep", <<irrep, id>>, made.ret)
            /\ UNCHANGED <<O2_cached_group_instance, self, maps>>

NextRestriction ==
    \/ Return
    \/ CyclicRestrictIrrep
    \/ O2RestrictIrrep

SpecRestriction == InitRestriction /\ [][NextRestriction]_vars

\* ------------------------------------------------ behaviours: subgroup ids

NextSubgroupIds ==
    \/ Return
    \/ CyclicSubgroup
    \/ O2Subgroup

SpecSubgroupIds == InitRestriction /\ [][NextSubgroupIds]_vars

\* ---------------------------------------------------- behaviours: induction

O2InducedFromIrrep ==
    /\ call = Idle
    /\ \E subgroup_id \in SubgroupIds, id \in {<<0, 0>>, <<1, 1>>},
          representatives \in {None, PyList(<<heap[self].reflection, heap[self].identity>>)} :
        /\ Returns("_induced_from_irrep",
                   <<subgroup_id, PyRef(heap[self].irreps[id]), representatives>>,
                   O2_induced_from_irrep(heap, self, subgroup_id, PyRef(heap[self].irreps[id]),
                                         representatives))
        /\ UNCHANGED pure

NextInduction ==
    \/ Return
    \/ O2InducedFromIrrep

SpecInduction == InitO2 /\ [][NextInduction]_vars

\* ---------------------------------------------------- behaviours: bl_irreps

CyclicBlIrreps ==
    /\ call = Idle
    /\ heap[self].cls = "CyclicGroup"
    /\ \E L \in (-MaxN) .. MaxN :
        /\ Returns("bl_irreps", <<L>>, CyclicGroup_bl_irreps(heap, self, L))
        /\ UNCHANGED pure

O2BlIrreps ==
    /\ call = Idle
    /\ heap[self].cls = "O2"
    /\ \E L \in (-MaxN) .. MaxN :
        /\ Returns("bl_irreps", <<L>>, O2_bl_irreps(L))
        /\ UNCHANGED pure

\* ---------------------------------------- behaviours: factories and irreps

\* The largest maximum frequency O(2) is asked to be built with.
MaxFrequency == 2

CyclicGroups(h) == {i \in DOMAIN h : h[i].cls = "CyclicGroup"}
O2Groups(h) == {i \in DOMAIN h : h[i].cls = "O2"}

\* The process starts with no group constructed.
InitCache ==
    /\ heap = <<>>
    /\ CyclicGroup_cached_group_instances = <<>>
    /\ O2_cached_group_instance = NoRef
    /\ other_cached_group_instances = <<>>
    /\ self = NoRef
    /\ maps = NoMaps
    /\ call = Idle

CyclicGenerator ==
    /\ call = Idle
    /\ \E n \in 0 .. MaxOrder :
        /\ n \in DOMAIN CyclicGroup_cached_group_instances \/ Cardinality(Groups(heap)) < MaxGroups
        /\ LET made == CyclicGroup_generator(heap, CyclicGroup_cached_group_instances, n)
           IN  /\ heap' = made.heap
               /\ CyclicGroup_cached_group_instances' = made.cache
               /\ Returns("_generator", <<"CyclicGroup", n>>, made.ret)
               /\ UNCHANGED <<O2_cached_group_instance, other_cached_group_instances, self, maps>>

O2Generator ==
    /\ call = Idle
    /\ O2_cached_group_instance # NoRef \/ Cardinality(Groups(heap)) < MaxGroups
    /\ \E f \in (-1) .. MaxFrequency :
        LET made == O2_generator(heap, O2_cached_group_instance, f)
        IN  /\ heap' = made.heap
            /\ O2_cached_group_instance' = made.cached
            /\ Returns("_generator", <<"O2", f>>, made.ret)
            /\ UNCHANGED <<CyclicGroup_cached_group_instances, other_cached_group_instances,
                           self, maps>>

CyclicIrrep ==
    /\ call = Idle
    /\ \E g \in CyclicGroups(heap), k \in (-1) .. (MaxOrder \div 2 + 1) :
        LET made == CyclicGroup_irrep(heap, g, k)
        IN  /\ heap' = made.heap
            /\ Returns("irrep", <<g, <<k>>>>, made.ret)
            /\ UNCHANGED <<CyclicGroup_cached_group_instances, O2_cached_group_instance,
                           other_cached_group_instances, self, maps>>

O2Irrep ==
    /\ call = Idle
    /\ \E g \in O2Groups(heap), j \in (-1) .. 2, k \in (-1) .. (MaxFrequency + 1) :
        LET made == O2_irrep(heap, g, j, k)
        IN  /\ heap' = made.heap
            /\ Returns("irrep", <<g, <<j, k>>>>, made.ret)
            /\ UNCHANGED <<CyclicGroup_cached_group_instances, O2_cached_group_instance,
                           other_cached_group_instances, self, maps>>

NextCache ==
    \/ Return
    \/ CyclicGenerator
    \/ O2Generator
    \/ CyclicIrrep
    \/ O2Irrep

SpecCache == InitCache /\ [][NextCache]_vars

NextBlIrreps ==
    \/ Return
    \/ CyclicBlIrreps
    \/ O2BlIrreps
    \/ CyclicIrrep
    \/ O2Irrep

SpecBlIrreps == InitRestriction /\ [][NextBlIrreps]_vars

\* ------------------------------------------- behaviours: concurrent callers

\* Two callers run one lazily cached operation each, statement by statement:
\* the membership test, the construction with its insertion, the final read.
\* The call record holds their positions; with mutex set, a caller holds an
\* external mutex from its first statement to its return.
Callers == 1 .. 2

\* What the callers ask of the group at g. Of O2: irrep of an id the
\* constructor registered and of one it did not; of CyclicGroup(N): irrep(k)
\* of every valid k; of the factory: CyclicGroup._generator(2).
Requests(h, g) ==
    (IF h[g].cls = "O2"
     THEN {[op |-> "irrep", key |-> <<1, 1>>],
           [op |-> "irrep", key |-> <<1, DefaultFrequency + 1>>]}
     ELSE {[op |-> "irrep", key |-> <<k>>] : k \in 0 .. (h[g].N \div 2)})
    \cup {[op |-> "_generator", key |-> <<2>>]}

\* A mutex that excludes nobody.
MutexIsIgnored(holder) == TRUE

\* The external mutex lets a caller in: it is free.
MutexIsFree(holder) ==
    holder = NoRef

\* if id not in self._irreps / if N not in cls._cached_group_instances.
IsCached(h, cache, g, request) ==
    IF request.op = "irrep" THEN request.key \in DOMAIN h[g].irreps
    ELSE request.key[1] \in DOMAIN cache

\* return self._irreps[id] / return cls._cached_group_instances[N].
Cached(h, cache, g, request) ==
    IF request.op = "irrep" THEN Ok(PyRef(h[g].irreps[request.key]))
    ELSE Ok(PyRef(cache[request.key[1]]))

\* self._irreps[id] = IrreducibleRepresentation(...) /
\* cls._cached_group_instances[N] = CyclicGroup(N): the object is built and
\* stored under the key, over whatever another caller stored there meanwhile.
BuiltAndInserted(h, cache, g, request) ==
    IF request.op = "irrep"
    THEN LET unset == [h EXCEPT ![g].irreps = [id \in (DOMAIN @) \ {request.key} |-> @[id]]]
         IN  [heap |-> IF h[g].cls = "O2"
                       THEN O2_irrep(unset, g, request.key[1], request.key[2]).heap
                       ELSE CyclicGroup_irrep(unset, g, request.key[1]).heap,
              cache |-> cache]
    ELSE LET made == CyclicGroup_generator(h, [N \in (DOMAIN cache) \ {request.key[1]} |-> cache[N]],
                                           request.key[1])
         IN  [heap |-> made.heap, cache |-> made.cache]

CallersStart ==
    /\ call = Idle
    /\ \E mutex \in BOOLEAN, r1 \in Requests(heap, self), r2 \in Requests(heap, self) :
        call' = [op |-> "concurrent", args |-> <<r1, r2>>, ret |-> Ok(None),
                 mutex |-> mutex, holder |-> NoRef,
                 pc |-> [i \in Callers |-> "start"], rets |-> [i \in Callers |-> Ok(None)]]
    /\ UNCHANGED pure

CallerEnters ==
    /\ call.op = "concurrent"
    /\ \E i \in Callers :
        /\ call.pc[i] = "start"
        /\ call.mutex => MutexIsFree(call.holder)
        /\ call' = [call EXCEPT !.pc[i] = "test", !.holder = IF call.mutex THEN i ELSE NoRef]
    /\ UNCHANGED pure

CallerTests ==
    /\ call.op = "concurrent"
    /\ \E i \in Callers :
        /\ call.pc[i] = "test"
        /\ call' = [call EXCEPT !.pc[i] =
                        IF IsCached(heap, CyclicGroup_cached_group_instances, self, call.args[i])
                        THEN "return" ELSE "build"]
    /\ UNCHANGED pure

CallerBuilds ==
    /\ call.op = "concurrent"
    /\ \E i \in Callers :
        /\ call.pc[i] = "build"
        /\ LET made == BuiltAndInserted(heap, CyclicGroup_cached_group_instances, self, call.args[i])
           IN  /\ heap' = made.heap
               /\ CyclicGroup_cached_group_instances' = made.cache
        /\ call' = [call EXCEPT !.pc[i] = "return"]
    /\ UNCHANGED <<O2_cached_group_instance, other_cached_group_instances, self, maps>>

CallerReturns ==
    /\ call.op = "concurrent"
    /\ \E i \in Callers :
        /\ call.pc[i] = "return"
        /\ call' = [call EXCEPT !.pc[i] = "done", !.holder = NoRef,
                                !.rets[i] = Cached(heap, CyclicGroup_cached_group_instances,
                                                   self, call.args[i])]
    /\ UNCHANGED pure

NextConcurrent ==
    \/ CallersStart
    \/ CallerEnters
    \/ CallerTests
    \/ CallerBuilds
    \/ CallerReturns

SpecConcurrent == InitO2 /\ [][NextConcurrent]_vars

\* Concurrent callers of a constructed cyclic group.
SpecConcurrentCyclic == InitCyclic /\ [][NextConcurrent]_vars

\* ------------------------------------------------------- behaviours: grids

GridTypes == {"rand", "regular", "cubic"}

\* The sequences of n draws from S; none for n <= 0.
RECURSIVE Draws(_, _)
Draws(S, n) ==
    IF n <= 0 THEN {<<>>}
    ELSE {Append(d, x) : d \in Draws(S, n - 1), x \in S}

\* The values of random() * 2pi the model draws: the quarter turns of [0, 2pi).
RandomAngles == {k * (Turn \div 4) : k \in 0 .. 3}

\* The counts a grid is asked for: up to MaxN regular, up to MaxOrder drawn.
GridSizes(type) == IF type = "rand" THEN (-1) .. MaxOrder ELSE (-MaxN) .. MaxN

CyclicGrid ==
    /\ call = Idle
    /\ heap[self].cls = "CyclicGroup"
    /\ \E type \in GridTypes :
       \E n \in GridSizes(type) :
       \E draws \in Draws(0 .. (heap[self].N - 1), IF type = "rand" THEN n ELSE 0) :
            Returns("grid", <<type, n>>, CyclicGroup_grid(heap, self, type, n, draws))
    /\ UNCHANGED pure

O2Grid ==
    /\ call = Idle
    /\ heap[self].cls = "O2"
    /\ \E type \in GridTypes, seed \in Seeds :
       \E n \in GridSizes(type) :
       \E draws \in Draws({0, 1} \X RandomAngles, IF type = "rand" THEN n ELSE 0) :
            Returns("grid", <<type, n, seed>>, O2_grid(self, n, type, seed, draws))
    /\ UNCHANGED pure

NextGrid ==
    \/ Return
    \/ CyclicGrid
    \/ O2Grid

SpecGrid == InitRestriction /\ [][NextGrid]_vars

\* ----------------------------------------------------- claims: CyclicGroup

\* The order of the group the calls are made on.
N == heap[self].N

\* The combination of two 'int' values, as the calls compute it.
Combined(a, b) == CyclicGroup_combine(N, a, b, "int", "None", "None")

\* The last call is op, made in the 'int' parametrization on elements of the group.
IntCall(op, operands) ==
    /\ call.op = op
    /\ call.args[operands + 1] = "int"
    /\ \A i \in 1 .. operands : call.args[i].type = "int" /\ Num(call.args[i]) \in 0 .. (N - 1)
    /\ operands = 2 => call.args[4] = "None" /\ call.args[5] = "None"

\* C1: in the 'int' parametrization CyclicGroup(N)._combine(a, b) of two
\* elements returns (a + b) mod N, which _is_element accepts as an int of
\* [0, N); CyclicGroup(4) combines 1 and 3 to 0.
C1_CombineIsSumModN ==
    IntCall("_combine", 2) =>
        LET a == Num(call.args[1])
            b == Num(call.args[2])
        IN  /\ call.ret = Ok(PyInt((a + b) % N))
            /\ CyclicGroup_is_element(N, call.ret.val, "int") = Ok(PyBool(TRUE))
            /\ Num(call.ret.val) \in 0 .. (N - 1)
            /\ (N = 4 /\ a = 1 /\ b = 3) => call.ret = Ok(PyInt(0))

C1_Witness ==
    /\ N = 4
    /\ call = [op |-> "_combine", args |-> <<PyInt(1), PyInt(3), "int", "None", "None">>, ret |-> Ok(PyInt(0))]

\* C2: in the 'int' parametrization of CyclicGroup(N) the result of every
\* combine(a, b) associates with every third element c, 0 is a two-sided
\* identity, and every inverse(a) is (-a) mod N and combines with a to 0 on
\* both sides.
C2_GroupAxioms ==
    /\ IntCall("_combine", 2) =>
        LET a == call.args[1]
            b == call.args[2]
        IN  /\ IsOk(call.ret)
            /\ \A c \in 0 .. (N - 1) :
                /\ IsOk(Combined(b, PyInt(c)))
                /\ Combined(call.ret.val, PyInt(c)) = Combined(a, Combined(b, PyInt(c)).val)
            /\ Num(b) = 0 => call.ret = Ok(a)
            /\ Num(a) = 0 => call.ret = Ok(b)
    /\ IntCall("_inverse", 1) =>
        LET a == call.args[1]
        IN  /\ call.ret = Ok(PyInt((-Num(a)) % N))
            /\ Combined(a, call.ret.val) = Ok(PyInt(0))
            /\ Combined(call.ret.val, a) = Ok(PyInt(0))

C2_Witness ==
    /\ N = 3
    /\ call = [op |-> "_inverse", args |-> <<PyInt(1), "int">>, ret |-> Ok(PyInt(2))]

\* C7: for every positive divisor M of N, _subgroup(M) yields C_M; its
\* inclusion maps s to s * (N / M), its restriction maps p to p / (N / M)
\* when N / M divides p and to None otherwise; so the restriction undoes the
\* inclusion, the inclusion maps 0 to 0, and the restriction is defined
\* exactly on the image of the inclusion.  CyclicGroup(6).subgroup(3)
\* includes 1 as 2.
C7_CyclicSubgroupMaps ==
    /\ (call.op = "_subgroup" /\ Num(call.args[1]) > 0 /\ N % Num(call.args[1]) = 0) =>
        /\ IsOk(call.ret)
        /\ heap[Num(call.ret.val.val[1])].cls = "CyclicGroup"
        /\ heap[Num(call.ret.val.val[1])].N = Num(call.args[1])
        /\ maps = [kind |-> "cyclic", G |-> self, sg |-> Num(call.ret.val.val[1]), order |-> Num(call.args[1])]
    /\ call.op = "parent_mapping" =>
        LET s == Num(call.args[1].val[2])
            M == heap[maps.sg].N
        IN  /\ call.ret = Ok(GroupElement(self, PyInt(s * (N \div M))))
            /\ child_mapping(heap, maps.G, maps.sg, call.ret.val) = Ok(call.args[1])
            /\ s = 0 => call.ret = Ok(heap[self].identity)
            /\ (N = 6 /\ M = 3 /\ s = 1) => call.ret = Ok(GroupElement(self, PyInt(2)))
    /\ call.op = "child_mapping" =>
        LET p == Num(call.args[1].val[2])
            M == heap[maps.sg].N
            image == {parent_mapping(heap, maps.G, maps.order, GroupElement(maps.sg, PyInt(s))) : s \in 0 .. (M - 1)}
        IN  /\ call.ret = IF p % (N \div M) = 0 THEN Ok(GroupElement(maps.sg, PyInt(p \div (N \div M))))
                          ELSE Ok(None)
            /\ call.ret # Ok(None) <=> Ok(call.args[1]) \in image

C7_Witness ==
    /\ N = 6
    /\ maps.kind = "cyclic" /\ maps.order = 3
    /\ call.op = "parent_mapping"
    /\ call.args = <<GroupElement(maps.sg, PyInt(1))>>
    /\ call.ret = Ok(GroupElement(self, PyInt(2)))

\* C9: converting the A-encoding of an element x of CyclicGroup(N) to B and
\* back to A yields the A-encoding of x, for every ordered pair (A, B) of
\* 'int', 'radians' and 'MAT'.
C9_RoundTrip ==
    (call.op = "_change_param"
        /\ \E x \in 0 .. (N - 1) : call.args[1] = Encoding(N, x, call.args[2])) =>
        /\ IsOk(call.ret)
        /\ CyclicGroup_change_param(N, call.ret.val, call.args[3], call.args[2]) = Ok(call.args[1])

\* C10: on all integers a and b passed as 'int' values, _equal(a, b) is true
\* exactly when a mod N = b mod N.
C10_EqualIsCongruence ==
    (/\ call.op = "_equal"
     /\ call.args[3] = "int" /\ call.args[4] = "None" /\ call.args[5] = "None") =>
        call.ret = Ok(PyBool(Num(call.args[1]) % N = Num(call.args[2]) % N))

\* -------------------------------------------------------------- claims: O2

\* The last call is op, made in the canonical parametrization of O(2).
RadiansCall(op, operands) ==
    /\ call.op = op
    /\ call.args[operands + 1] = "radians"

\* The combination of two canonical values, as the calls compute it.
O2Combined(a, b) == O2_combine(a, b, "radians", "None", "None")

\* The elements on the grid, with their angles in [0, 2pi).
O2Elements == {O2Pair(j, t % Turn) : j \in {0, 1}, t \in Angles}

\* C3: O2._combine of (a, alpha) and (b, beta) returns
\* ((a + b) mod 2, (alpha + (-1)^a beta) mod 2pi); (1, 0.0) combined with
\* itself is (0, 0.0).
C3_O2CombineIsSemidirect ==
    RadiansCall("_combine", 2) =>
        LET a == Num(call.args[1].val[1])
            alpha == Num(call.args[1].val[2])
            b == Num(call.args[2].val[1])
            beta == Num(call.args[2].val[2])
        IN  /\ call.ret = Ok(O2Pair((a + b) % 2, (alpha + (IF a = 1 THEN -beta ELSE beta)) % Turn))
            /\ Num(call.ret.val.val[1]) = 1 <=> a # b
            /\ (a = 1 /\ alpha = 0 /\ b = 1 /\ beta = 0) => call.ret = Ok(O2Pair(0, 0))

C3_Witness ==
    /\ heap[self].cls = "O2"
    /\ call.op = "_combine"
    /\ call.args = <<O2Pair(1, Turn \div 4), O2Pair(0, Turn \div 2), "radians", "None", "None">>
    /\ call.ret = Ok(O2Pair(1, 3 * (Turn \div 4)))

\* C4: on the grid, the result of every combine(g, h) associates with every
\* third element, (0, 0) is a two-sided identity, the inverse of (0, theta)
\* is (0, -theta) and of (1, theta) is (1, theta), it combines with the
\* element to (0, 0) on both sides, and every result has its flip in {0, 1}
\* and its angle in [0, 2pi).
C4_O2GroupAxioms ==
    /\ RadiansCall("_combine", 2) =>
        LET g == call.args[1]
            h == call.args[2]
        IN  /\ IsOk(call.ret)
            /\ call.ret.val \in O2Elements
            /\ \A k \in O2Elements :
                O2Combined(call.ret.val, k) = O2Combined(g, O2Combined(h, k).val)
            /\ h = O2Pair(0, 0) => call.ret = O2_change_param(g, "radians", "radians")
            /\ g = O2Pair(0, 0) => call.ret = O2_change_param(h, "radians", "radians")
    /\ RadiansCall("_inverse", 1) =>
        LET j == Num(call.args[1].val[1])
            theta == Num(call.args[1].val[2])
        IN  /\ call.ret = Ok(O2Pair(j, (IF j = 0 THEN -theta ELSE theta) % Turn))
            /\ call.ret.val \in O2Elements
            /\ O2Combined(call.args[1], call.ret.val) = Ok(O2Pair(0, 0))
            /\ O2Combined(call.ret.val, call.args[1]) = Ok(O2Pair(0, 0))

C4_Witness ==
    /\ heap[self].cls = "O2"
    /\ call = [op |-> "_inverse", args |-> <<O2Pair(1, Turn \div 4), "radians">>,
               ret |-> Ok(O2Pair(1, Turn \div 4))]

\* ---------------------------------------------------- claims: O2 subgroups

\* The element of O(2) the inclusion of the triple maps is said to give for s.
Included(s) ==
    LET theta == maps.axis
        M == heap[maps.sg].rotation_order
    IN  IF maps.kind = "so2"
        THEN GroupElement(self, O2Pair(0, ((Num(s.val[2]) * Turn) \div M) % Turn))
        ELSE IF maps.kind = "flip"
        THEN IF Num(s.val[2]) = 0 THEN GroupElement(self, O2Pair(0, 0))
             ELSE GroupElement(self, O2Pair(1, theta % Turn))
        ELSE LET f == Num(s.val[2].val[1])
                 r == Num(s.val[2].val[2])
             IN  GroupElement(self, O2Pair(f, ((r * Turn) \div M + f * theta) % Turn))

\* C8: for the subgroups C_M = (None, M), (theta, 1) and D_M = (theta, M > 1)
\* of O(2), the inclusion maps a of C_M to (0, a * 2pi / M), 0 and 1 of the
\* reflection group to (0, 0) and (1, theta), and (f, r) of D_M to
\* (f, r * 2pi / M + f * theta); the restriction maps the inclusion of every
\* subgroup element s back to s; and the inclusion maps the subgroup's
\* identity to (0, 0).
C8_O2SubgroupMaps ==
    (/\ call.op = "parent_mapping"
     /\ maps.kind \in {"so2", "flip", "dn"}
     /\ heap[maps.sg].cls \in {"CyclicGroup", "DihedralGroup"}) =>
        LET s == call.args[1]
        IN  /\ call.ret = Ok(Included(s))
            /\ O2_child_mapping(heap, maps, call.ret.val) = Ok(s)
            /\ s.val[2] \in {PyInt(0), PyTuple(<<PyInt(0), PyInt(0)>>)} =>
                    call.ret = Ok(GroupElement(self, O2Pair(0, 0)))


\* ------------------------------------------- claims: factories and irreps

\* C5: over every sequence of irrep requests on a group, an id that is in
\* the registry stays there with the same object, unchanged; a request for
\* an id that is in the registry builds nothing and returns the registry's
\* object; and every request that returns, returns the registry's object, so
\* every request for an id returns what the first one returned.
C5_IrrepRegistry ==
    [][/\ \A g \in Groups(heap) :
            \A id \in DOMAIN heap[g].irreps :
                /\ id \in DOMAIN heap'[g].irreps
                /\ heap'[g].irreps[id] = heap[g].irreps[id]
                /\ heap'[heap[g].irreps[id]] = heap[heap[g].irreps[id]]
       /\ call'.op = "irrep" =>
            LET g == call'.args[1]
                id == call'.args[2]
            IN  /\ IsOk(call'.ret) => call'.ret = Ok(PyRef(heap'[g].irreps[id]))
                /\ id \in DOMAIN heap[g].irreps =>
                    /\ heap' = heap
                    /\ call'.ret = Ok(PyRef(heap[g].irreps[id]))]_vars

\* A request is answered with an irrep of O(2) that an earlier request built
\* beyond the maximum frequency, other objects having been built since.
C5_Witness ==
    /\ call.op = "irrep"
    /\ heap[call.args[1]].cls = "O2"
    /\ call.args[2] = <<1, heap[call.args[1]].maximum_frequency + 1>>
    /\ IsOk(call.ret)
    /\ Num(call.ret.val) < Len(heap)

\* C6: over every sequence of calls of CyclicGroup._generator(N) and
\* O2._generator(f), an instance that is cached is never replaced, a call
\* returns the cached instance, a call with a parameter whose instance is
\* cached constructs no group, and no two groups of a class on the heap were
\* constructed for the same parameter.
C6_MemoizingFactories ==
    [][/\ \A n \in DOMAIN CyclicGroup_cached_group_instances :
            /\ n \in DOMAIN CyclicGroup_cached_group_instances'
            /\ CyclicGroup_cached_group_instances'[n] = CyclicGroup_cached_group_instances[n]
       /\ O2_cached_group_instance # NoRef => O2_cached_group_instance' = O2_cached_group_instance
       /\ (call'.op = "_generator" /\ call'.args[1] = "CyclicGroup") =>
            /\ IsOk(call'.ret) =>
                    call'.ret = Ok(PyRef(CyclicGroup_cached_group_instances'[call'.args[2]]))
            /\ call'.args[2] \in DOMAIN CyclicGroup_cached_group_instances =>
                /\ Groups(heap') = Groups(heap)
                /\ call'.ret = Ok(PyRef(CyclicGroup_cached_group_instances[call'.args[2]]))
       /\ (call'.op = "_generator" /\ call'.args[1] = "O2") =>
            /\ IsOk(call'.ret) => call'.ret = Ok(PyRef(O2_cached_group_instance'))
            /\ O2_cached_group_instance # NoRef =>
                /\ Groups(heap') = Groups(heap)
                /\ call'.ret = Ok(PyRef(O2_cached_group_instance))
       /\ \A i \in CyclicGroups(heap'), j \in CyclicGroups(heap') :
            heap'[i].N = heap'[j].N => i = j
       /\ Cardinality(O2Groups(heap')) <= 1]_vars

\* A second call of CyclicGroup._generator(2) returns the group the first
\* one constructed, O(2) having been constructed in between.
C6_Witness ==
    /\ call.op = "_generator"
    /\ call.args = <<"CyclicGroup", 2>>
    /\ call.ret = Ok(PyRef(1))
    /\ O2_cached_group_instance # NoRef


\* ------------------------------------------------------ claims: membership

\* The value e is the param encoding of an element of the group at self,
\* angles being taken modulo 2pi.
IsMember(e, param) ==
    IF heap[self].cls = "CyclicGroup"
    THEN IF param = "radians"
         THEN e.type = "float" /\ cycle_isclose(Num(e), 0, Turn \div heap[self].N)
         ELSE \E x \in 0 .. (heap[self].N - 1) : e = Encoding(heap[self].N, x, param)
    ELSE /\ e.type = "tuple"
         /\ Len(e.val) = 2
         /\ e.val[1] \in {PyInt(0), PyInt(1)}
         /\ IF param = "radians" THEN e.val[2].type = "float"
            ELSE /\ e.val[2].type = "ndarray"
                 /\ IsShape22(e.val[2].val)
                 /\ IsRotation(e.val[2].val)

\* C11: _is_element of CyclicGroup and of O2 returns for every value: True
\* for the encoding of an element and False for every other value (an angle
\* that is no multiple of 2pi/N, a matrix that is no rotation, a value of a
\* wrong type or shape); it never raises.
C11_IsElementIsBoolean ==
    call.op = "_is_element" =>
        call.ret = Ok(PyBool(IsMember(call.args[1], call.args[2])))


\* ---------------------------------------------- claims: CyclicGroup irreps

\* The irrep a call of an irrep or of its character is made on, and the
\* frequency and the int value of the element it is given.
Psi == heap[Num(call.args[1])]
Frequency == Psi.frequency
At == Num(call.args[2].val[2])
IrrepAt(k, a) == build_irrep_cn(N, k, PyInt(a))

\* C12: the matrix irrep k of C_N returns at a, times its matrix at b, is
\* its matrix at combine(a, b), for every b; its matrix at 0 is the identity
\* matrix; for C_4, irrep 1 at 1 is [[0, -1], [1, 0]] and irrep 2 at 1 is
\* [[-1]].
C12_IrrepHomomorphism ==
    call.op = "__call__" =>
        /\ IsOk(call.ret)
        /\ \A b \in 0 .. (N - 1) :
            IrrepAt(Frequency, Num(Combined(PyInt(At), PyInt(b)).val)) = MatMul(call.ret.val.val, IrrepAt(Frequency, b))
        /\ At = 0 => call.ret.val.val = Eye(Len(call.ret.val.val))
        /\ (N = 4 /\ Frequency = 1 /\ At = 1) =>
                call.ret.val.val = << <<RInt(0), RInt(-1)>>, <<RInt(1), RInt(0)>> >>
        /\ (N = 4 /\ Frequency = 2 /\ At = 1) => call.ret.val.val = << <<RInt(-1)>> >>

C12_Witness ==
    /\ N = 4
    /\ call.op = "__call__"
    /\ Frequency = 1
    /\ At = 1
    /\ call.ret = Ok(NdArray(<< <<RInt(0), RInt(-1)>>, <<RInt(1), RInt(0)>> >>))


\* C13: irrep k of C_N is registered with size 1 when k = 0 or N is even and
\* k = N / 2, and with size 2 otherwise; the matrix it returns at every
\* element is square of that size; and its character at every element is the
\* trace of that matrix: 1, cos(k theta) and 2 cos(k theta) respectively.
C13_SizesAndCharacters ==
    LET size == IF Frequency = 0 \/ (N % 2 = 0 /\ 2 * Frequency = N) THEN 1 ELSE 2
        cos == RCos(Frequency * ((At * Turn) \div N))
    IN  /\ \A k \in 0 .. (N \div 2) : <<k>> \in DOMAIN heap[self].irreps
        /\ call.op \in {"__call__", "character"} => Psi.size = size
        /\ call.op = "__call__" =>
            /\ IsOk(call.ret)
            /\ Len(call.ret.val.val) = size
            /\ \A i \in 1 .. size : Len(call.ret.val.val[i]) = size
        /\ call.op = "character" =>
            /\ IsOk(call.ret)
            /\ Num(call.ret.val) = Trace(IrrepAt(Frequency, At), size)
            /\ Num(call.ret.val) = IF Frequency = 0 THEN RInt(1)
                                   ELSE IF size = 1 THEN cos ELSE RAdd(cos, cos)

C13_Witness ==
    /\ N = 4
    /\ call.op = "character"
    /\ Frequency = 1
    /\ At = 2
    /\ Psi.size = 2
    /\ call.ret = Ok(PyFloat(RInt(-2)))


\* The sum over the elements 0 .. g of C_N of character_i * character_j, the
\* character of irrep i at the element At being what the last call returned.
RECURSIVE CharacterSum(_, _, _)
CharacterSum(i, j, g) ==
    IF g < 0 THEN RInt(0)
    ELSE RAdd(CharacterSum(i, j, g - 1),
              RMul(IF g = At THEN Num(call.ret.val) ELSE build_char_cn(N, i, PyInt(g)),
                   build_char_cn(N, j, PyInt(g))))

\* C14 as stated: for the irreps i, j in {0, 1, 2} of C_4, the sum over the
\* four elements g of character_i(g) * character_j(g) is 4 when i = j and 0
\* when i # j.
C14_CharacterOrthogonality ==
    (N = 4 /\ call.op = "character") =>
        \A j \in 0 .. 2 :
            CharacterSum(Frequency, j, 3) = RInt(IF Frequency = j THEN 4 ELSE 0)

\* C14, amended: the sum is 0 when i # j, 4 when i = j is an irrep of size 1
\* (0 or 2), and 8 when i = j = 1, the irrep of size 2.
C14_CharacterOrthogonalityBySize ==
    (N = 4 /\ call.op = "character") =>
        \A j \in 0 .. 2 :
            CharacterSum(Frequency, j, 3) = RInt(IF Frequency # j THEN 0 ELSE 4 * Psi.size)

C14_Witness ==
    /\ N = 4
    /\ call.op = "character"
    /\ Frequency = 1
    /\ At = 2
    /\ CharacterSum(1, 1, 3) = RInt(8)


\* The registered size of the irrep of frequency k of the group at self.
SizeOf(k) == heap[heap[self].irreps[<<k>>]].size

RECURSIVE ListedSize(_, _)
ListedSize(list, i) ==
    IF i = 0 THEN 0 ELSE ListedSize(list, i - 1) + list[i][2] * SizeOf(list[i][1][1])

Count(list, x) == Cardinality({i \in DOMAIN list : list[i] = x})

\* C15: for valid frequencies J and l of C_N, _tensor_product_irreps(J, l)
\* lists only ids of irreps of C_N; the sizes of the listed irreps, each
\* times its multiplicity, add up to size(J) * size(l); and the list for
\* (l, J) holds the same entries the same number of times.
C15_TensorProductDimensions ==
    call.op = "_tensor_product_irreps" =>
        LET J == call.args[1]
            l == call.args[2]
            list == call.ret.val.val
            swapped == CyclicGroup_tensor_product_irreps(N, l, J).val.val
        IN  /\ IsOk(call.ret)
            /\ \A i \in DOMAIN list :
                /\ Len(list[i][1]) = 1
                /\ list[i][1][1] \in 0 .. (N \div 2)
                /\ list[i][1] \in DOMAIN heap[self].irreps
            /\ ListedSize(list, Len(list)) = SizeOf(J) * SizeOf(l)
            /\ Len(list) = Len(swapped)
            /\ \A i \in DOMAIN list : Count(list, list[i]) = Count(swapped, list[i])

C15_Witness ==
    /\ N = 6
    /\ call.op = "_tensor_product_irreps"
    /\ call.args = <<1, 2>>
    /\ call.ret = Ok(PyList(<< <<<<1>>, 1>>, <<<<3>>, 2>> >>))

\* ------------------------------------------ claims: Clebsch-Gordan coefficients

Listed == CyclicGroup_tensor_product_irreps(N, call.args[1], call.args[2]).val.val

\* The coefficients of the listed irrep j: the returned ones for the j of the call.
Coefficients(j) ==
    IF j = call.args[3] THEN call.ret.val.val
    ELSE CyclicGroup_clebsh_gordan_coeff(heap, self, call.args[1], call.args[2], j).ret.val.val

\* The columns of the stacked matrix: the listed irrep, the copy, the column in it.
StackedColumns ==
    {c \in (DOMAIN Listed) \X (1 .. 2) \X (1 .. 2) :
        LET cg == Coefficients(Listed[c[1]][1][1])
        IN  c[2] \in DOMAIN cg[1][1] /\ c[3] \in DOMAIN cg[1][1][c[2]]}

\* The rows of the stacked matrix: the pairs of an index of m and one of n.
StackedRows == (1 .. SizeOf(call.args[1])) \X (1 .. SizeOf(call.args[2]))

StackedEntry(r, c) == Coefficients(Listed[c[1]][1][1])[r[1]][r[2]][c[2]][c[3]]

RECURSIVE RSum(_, _)
RSum(S, f) ==
    IF S = {} THEN RInt(0) ELSE LET p == CHOOSE q \in S : TRUE IN RAdd(f[p], RSum(S \ {p}, f))

ColumnDot(c1, c2) ==
    RSum(StackedRows, [r \in StackedRows |-> RMul(StackedEntry(r, c1), StackedEntry(r, c2))])

IsListed == \E i \in DOMAIN Listed : Listed[i][1] = <<call.args[3]>>

\* C16: the coefficients _clebsh_gordan_coeff(m, n, j) returns for a j that
\* _tensor_product_irreps(m, n) lists have the shape (size_m, size_n,
\* multiplicity of j, size_j); stacked with those of the other listed irreps
\* and reshaped to size_m * size_n rows they form a square matrix whose
\* columns are orthonormal.
C16_ClebshGordanOrthonormal ==
    (call.op = "_clebsh_gordan_coeff" /\ IsListed) =>
        /\ IsOk(call.ret)
        /\ DOMAIN call.ret.val.val = 1 .. SizeOf(call.args[1])
        /\ \A r \in StackedRows :
            /\ DOMAIN call.ret.val.val[r[1]] = 1 .. SizeOf(call.args[2])
            /\ \E i \in DOMAIN Listed :
                /\ Listed[i][1] = <<call.args[3]>>
                /\ Len(call.ret.val.val[r[1]][r[2]]) = Listed[i][2]
            /\ \A x \in DOMAIN call.ret.val.val[r[1]][r[2]] :
                Len(call.ret.val.val[r[1]][r[2]][x]) = SizeOf(call.args[3])
        /\ Cardinality(StackedColumns) = Cardinality(StackedRows)
        /\ \A c1 \in StackedColumns, c2 \in StackedColumns :
            ColumnDot(c1, c2) = RInt(IF c1 = c2 THEN 1 ELSE 0)

C16_Witness ==
    /\ N = 6
    /\ call.op = "_clebsh_gordan_coeff"
    /\ call.args = <<1, 2, 1>>
    /\ IsOk(call.ret)
    /\ call.ret.val.val[1][1] = << <<InvSqrt2, RInt(0)>> >>
    /\ call.ret.val.val[1][2] = << <<RInt(0), InvSqrt2>> >>

\* ------------------------------------------------ claims: irrep restriction

IsCyclic == heap[self].cls = "CyclicGroup"

\* The order m of the cyclic subgroup the call restricts to.
SubgroupOrder == IF IsCyclic THEN Num(call.args[2]) ELSE Num(call.args[2].val[2])

\* The call restricts a registered irrep to a cyclic subgroup: of C_N with
\* m dividing N, of O(2) with the id (None, m), m > 0.
RestrictsToCyclic ==
    /\ call.op = "_restrict_irrep"
    /\ call.args[1] \in DOMAIN heap[self].irreps
    /\ IF IsCyclic THEN SubgroupOrder >= 1 /\ heap[self].N % SubgroupOrder = 0
       ELSE /\ call.args[2].type = "tuple"
            /\ call.args[2].val[1] = None
            /\ SubgroupOrder > 0

ParentIrrep == heap[heap[self].irreps[call.args[1]]]

Subgroup == CyclicGroup_cached_group_instances[SubgroupOrder]

Folding == 2 * (ParentIrrep.frequency % SubgroupOrder) > SubgroupOrder

FoldedFrequency ==
    IF Folding THEN SubgroupOrder - (ParentIrrep.frequency % SubgroupOrder)
    ELSE ParentIrrep.frequency % SubgroupOrder

ChangeOfBasis == call.ret.val.val[1].val

RestrictedIds == call.ret.val.val[2].val

\* The parent's irrep at the inclusion of the subgroup element s.
ParentAt(s) ==
    LET included == IF IsCyclic THEN parent_mapping(heap, self, SubgroupOrder, s)
                    ELSE so2_to_o2(heap, self, s)
    IN  Representation_call(heap, heap[self].irreps[call.args[1]], included.val).val.val

RECURSIVE SizeBefore(_, _)
SizeBefore(ms, i) == IF i = 1 THEN 0 ELSE SizeBefore(ms, i - 1) + Len(ms[i - 1])

\* The block-diagonal matrix of the matrices ms.
BlockDiag(ms) ==
    LET total == SizeBefore(ms, Len(ms) + 1)
        block(r) == CHOOSE i \in DOMAIN ms : SizeBefore(ms, i) < r /\ r <= SizeBefore(ms, i + 1)
    IN  [r \in 1 .. total |-> [c \in 1 .. total |->
            IF block(r) = block(c)
            THEN ms[block(r)][r - SizeBefore(ms, block(r))][c - SizeBefore(ms, block(r))]
            ELSE RInt(0)]]

\* The listed irreps of the subgroup at its element s, as one block-diagonal matrix.
RestrictedAt(s) ==
    BlockDiag([i \in DOMAIN RestrictedIds |->
        Representation_call(heap, heap[Subgroup].irreps[RestrictedIds[i]], s).val.val])

\* C17: restricting the irrep of frequency k to the cyclic subgroup of order
\* m gives f = k mod m, replaced by m - f when f > m / 2; the id (f,) is
\* listed once when the subgroup's irrep has the parent's size and twice when
\* it is 1-dimensional under a 2-dimensional parent; the change of basis is
\* diag(1, -1) exactly when f was replaced and the identity otherwise; and at
\* every subgroup element s the parent's irrep at inclusion(s) is the change
\* of basis times the block-diagonal matrix of the listed irreps at s times
\* the inverse of the change of basis.
C17_RestrictionToCyclic ==
    RestrictsToCyclic =>
        /\ IsOk(call.ret)
        /\ LET small == heap[heap[Subgroup].irreps[<<FoldedFrequency>>]].size
           IN  \/ small = ParentIrrep.size /\ RestrictedIds = << <<FoldedFrequency>> >>
               \/ /\ small = 1
                  /\ ParentIrrep.size = 2
                  /\ RestrictedIds = << <<FoldedFrequency>>, <<FoldedFrequency>> >>
        /\ ChangeOfBasis = IF Folding THEN << <<RInt(1), RInt(0)>>, <<RInt(0), RInt(-1)>> >>
                           ELSE Eye(ParentIrrep.size)
        /\ MatMul(ChangeOfBasis, Transpose(ChangeOfBasis)) = Eye(ParentIrrep.size)
        /\ \A s \in Elements(heap, Subgroup) :
            ParentAt(s) = MatMul(MatMul(ChangeOfBasis, RestrictedAt(s)), Transpose(ChangeOfBasis))

\* The folded case: frequency 2 of C_6 restricted to C_3.
C17_Witness ==
    /\ IsCyclic
    /\ heap[self].N = 6
    /\ call.op = "_restrict_irrep"
    /\ call.args = << <<2>>, PyInt(3)>>
    /\ call.ret = Ok(PyTuple(<<NdArray(<< <<RInt(1), RInt(0)>>, <<RInt(0), RInt(-1)>> >>),
                               PyList(<< <<1>> >>)>>))

\* ---------------------------------------------------- claims: O2 subgroups ids

\* The id passes the assertions of O2._subgroup: a pair of None or a float
\* in [0, 2 pi] and of an int that is -1 or positive.
Validated(id) ==
    /\ id.type = "tuple"
    /\ Len(id.val) = 2
    /\ id.val[1].type \in {"NoneType", "float"}
    /\ id.val[2].type = "int"
    /\ id.val[1].type = "float" => (0 <= Num(id.val[1]) /\ Num(id.val[1]) <= Turn)
    /\ Num(id.val[2]) = -1 \/ Num(id.val[2]) > 0

\* The subgroup returned by the call, and the maps that came with it.
ReturnedSubgroup == heap[Num(call.ret.val.val[1])]

\* Conjugation by the rotation by theta / 2: a reflection's angle moves by theta.
Conjugated(e, theta) ==
    GroupElement(self, O2Pair(Num(e.val[2].val[1]),
                              (Num(e.val[2].val[2]) + Num(e.val[2].val[1]) * theta) % Turn))

\* C18: O2._subgroup gives every id that passes its assertions exactly one
\* type of subgroup: (None, -1) SO(2); (theta, -1) O(2) with the adjoint maps
\* by the rotation theta / 2; (None, M > 0) C_M; (theta, 1) C_2;
\* (theta, M > 1) D_M; every other id fails an assertion, and no call ends in
\* the ValueError of the last branch.
C18_SubgroupTypes ==
    call.op = "_subgroup" =>
        LET id == call.args[1]
            none == id.val[1].type = "NoneType"
            theta == Num(id.val[1])
            M == Num(id.val[2])
        IN  /\ call.ret # Raise("ValueError")
            /\ ~Validated(id) => call.ret = Raise("AssertionError")
            /\ Validated(id) =>
                /\ IsOk(call.ret)
                /\ maps.G = self
                /\ maps.sg = Num(call.ret.val.val[1])
                /\ (none /\ M = -1) => (ReturnedSubgroup.cls = "SO2" /\ maps.kind = "so2")
                /\ (~none /\ M = -1) =>
                    /\ ReturnedSubgroup.cls = "O2"
                    /\ maps.kind = "adjoint"
                    /\ \A e \in Elements(heap, self) :
                        /\ O2_parent_mapping(heap, maps, e) = Ok(Conjugated(e, theta))
                        /\ O2_child_mapping(heap, maps, e) = Ok(Conjugated(e, -theta))
                /\ (none /\ M > 0) =>
                    /\ ReturnedSubgroup.cls = "CyclicGroup"
                    /\ ReturnedSubgroup.N = M
                    /\ maps.kind = "so2"
                /\ (~none /\ M = 1) =>
                    /\ ReturnedSubgroup.cls = "CyclicGroup"
                    /\ ReturnedSubgroup.N = 2
                    /\ maps.kind = "flip"
                    /\ maps.axis = theta
                /\ (~none /\ M > 1) =>
                    /\ ReturnedSubgroup.cls = "DihedralGroup"
                    /\ ReturnedSubgroup.N = M
                    /\ maps.kind = "dn"
                    /\ maps.axis = theta

C18_Witness ==
    /\ call.op = "_subgroup"
    /\ call.args = <<PyTuple(<<PyFloat(Turn \div 4), PyInt(3)>>)>>
    /\ IsOk(call.ret)
    /\ ReturnedSubgroup.cls = "DihedralGroup"
    /\ ReturnedSubgroup.N = 3

\* ------------------------------------------- claims: O2 subgroup restriction

\* The parent element p is outside the image of the inclusion, as the three
\* kinds of subgroup are described: C_M, the reflection group, D_M.
OutsideImage(p) ==
    LET f == Num(p.val[2].val[1])
        rot == Num(p.val[2].val[2])
        step == Turn \div heap[maps.sg].rotation_order
    IN  IF maps.kind = "so2" THEN f = 1 \/ rot % step # 0
        ELSE IF maps.kind = "flip"
        THEN ~((f = 0 /\ rot % Turn = 0) \/ (f = 1 /\ (rot - maps.axis) % Turn = 0))
        ELSE (rot - f * maps.axis) % step # 0

RestrictsToSubgroup ==
    /\ call.op = "child_mapping"
    /\ maps.kind \in {"so2", "flip", "dn"}
    /\ heap[maps.sg].cls \in {"CyclicGroup", "DihedralGroup"}

\* C19: for the subgroups C_M, (theta, 1) and D_M of O(2) the restriction
\* returns for every parent element p: None exactly when p is outside the
\* image of the inclusion, and otherwise a subgroup element whose inclusion
\* is p.
C19_RestrictionOutsideImage ==
    RestrictsToSubgroup =>
        /\ IsOk(call.ret)
        /\ (call.ret = Ok(None)) <=> OutsideImage(call.args[1])
        /\ call.ret # Ok(None) => O2_parent_mapping(heap, maps, call.ret.val) = Ok(call.args[1])

\* ------------------------------------------------- claims: invalid irrep ids

\* The id is not the id of an irrep of the group at g: a frequency outside
\* [0, N // 2] for C_N; for O(2) a j outside {0, 1}, a negative k, or (0, k > 0).
InvalidIrrepId(h, g, id) ==
    IF h[g].cls = "CyclicGroup" THEN id[1] < 0 \/ id[1] > h[g].N \div 2
    ELSE id[1] \notin {0, 1} \/ id[2] < 0 \/ (id[1] = 0 /\ id[2] > 0)

\* What a request for the id would return in the heap h.
IrrepRequest(h, g, id) ==
    IF h[g].cls = "CyclicGroup" THEN CyclicGroup_irrep(h, g, id[1]) ELSE O2_irrep(h, g, id[1], id[2])

\* C20: a request for an invalid irrep id raises and leaves the heap, hence
\* the registry, as it was; the id is not registered afterwards, and a later
\* request for it raises again.
C20_InvalidIrrepRaises ==
    [][(call'.op = "irrep" /\ InvalidIrrepId(heap, call'.args[1], call'.args[2])) =>
            /\ ~IsOk(call'.ret)
            /\ heap' = heap
            /\ call'.args[2] \notin DOMAIN heap'[call'.args[1]].irreps
            /\ ~IsOk(IrrepRequest(heap', call'.args[1], call'.args[2]).ret)
       /\ \A g \in CyclicGroups(heap) \cup O2Groups(heap) :
            \A id \in DOMAIN heap[g].irreps :
                ~InvalidIrrepId(heap, g, id) /\ ~InvalidIrrepId(heap', g, id)]_vars

C20_Witness ==
    /\ call.op = "irrep"
    /\ heap[call.args[1]].cls = "O2"
    /\ call.args[2] = <<0, 1>>
    /\ call.ret = Raise("ValueError")
    /\ <<0, 1>> \notin DOMAIN heap[call.args[1]].irreps

\* ----------------------------------------------------- claims: subgroup ids

\* C21: CyclicGroup(N)._subgroup(id) with an integer id returns its triple
\* when id is positive and divides N, and then the subgroup has order id;
\* for every other integer, 0 and the negative divisors of N included, it
\* raises and leaves the heap and the cache as they were; O2._subgroup
\* raises for every id that does not pass its assertions.
C21_InvalidSubgroupIds ==
    [][call'.op = "_subgroup" =>
        IF heap[self].cls = "CyclicGroup"
        THEN LET id == Num(call'.args[1])
             IN  IF id >= 1 /\ heap[self].N % id = 0
                 THEN /\ IsOk(call'.ret)
                      /\ Len(call'.ret.val.val) = 3
                      /\ heap'[Num(call'.ret.val.val[1])].cls = "CyclicGroup"
                      /\ heap'[Num(call'.ret.val.val[1])].N = id
                 ELSE /\ ~IsOk(call'.ret)
                      /\ heap' = heap
                      /\ CyclicGroup_cached_group_instances' = CyclicGroup_cached_group_instances
        ELSE ~Validated(call'.args[1]) =>
                /\ ~IsOk(call'.ret)
                /\ heap' = heap]_vars

\* The negative divisor -3 of 6 is refused.
C21_Witness ==
    /\ IsCyclic
    /\ heap[self].N = 6
    /\ call.op = "_subgroup"
    /\ call.args = <<PyInt(-3)>>
    /\ call.ret = Raise("AssertionError")

\* -------------------------------------------------------- claims: induction

\* C22: O2._induced_from_irrep without representatives raises exactly for
\* the ids of the subgroups of infinite index, (None or theta, M > 0); for
\* the ids of the subgroups of finite index, (None or theta, -1), it goes on,
\* and for SO(2) = (None, -1) with the representatives [identity, reflection].
C22_InductionFromFiniteIndex ==
    (/\ call.op = "_induced_from_irrep"
     /\ call.args[3] = None
     /\ Validated(call.args[1])) =>
        /\ (call.ret = Raise("ValueError")) <=> Num(call.args[1].val[2]) > 0
        /\ Num(call.args[1].val[2]) = -1 => IsOk(call.ret)
        /\ call.args[1] = PyTuple(<<None, PyInt(-1)>>) =>
            call.ret = Group_induced_from_irrep(call.args[1], call.args[2],
                            PyList(<<heap[self].identity, heap[self].reflection>>))

\* ---------------------------------------------------- claims: immutability

\* The attributes of a group object other than its registry of irreps.
Attributes(obj) == [a \in (DOMAIN obj) \ {"irreps"} |-> obj[a]]

\* C23: no step changes an attribute of a group object that exists: its
\* class, name, order, rotation order, identity, and for O(2) its reflection
\* and maximum frequency stay what the constructor made them; only the
\* registries and the caches grow.
C23_GroupsAreImmutable ==
    [][\A g \in Groups(heap) :
            /\ g \in Groups(heap')
            /\ Attributes(heap'[g]) = Attributes(heap[g])]_vars

\* -------------------------------------------------------- claims: bl_irreps

\* The ids of the irreps of the group with frequency at most L.
UpTo(L) ==
    IF IsCyclic THEN {<<k>> : k \in 0 .. L}
    ELSE {id \in (0 .. 1) \X (0 .. L) : ~InvalidIrrepId(heap, self, id)}

\* C24: bl_irreps(L) returns the ids of the irreps of frequency at most L,
\* each once: [(0,), ..., (L,)] for C_N, failing for L < 0 and L > N // 2;
\* [(0, 0), (1, 0), ..., (1, L)] for O(2), failing for L < 0; and irrep()
\* of the same group accepts every id of the list.
C24_BlIrreps ==
    call.op = "bl_irreps" =>
        LET L == call.args[1]
            list == call.ret.val.val
        IN  IF L < 0 \/ (IsCyclic /\ L > heap[self].N \div 2) THEN ~IsOk(call.ret)
            ELSE /\ IsOk(call.ret)
                 /\ call.ret.val.type = "list"
                 /\ {list[i] : i \in DOMAIN list} = UpTo(L)
                 /\ Len(list) = Cardinality(UpTo(L))
                 /\ \A i \in DOMAIN list : IsOk(IrrepRequest(heap, self, list[i]).ret)
                 /\ IF IsCyclic THEN \A i \in DOMAIN list : list[i] = <<i - 1>>
                    ELSE /\ list[1] = <<0, 0>>
                         /\ \A i \in 2 .. Len(list) : list[i] = <<1, i - 2>>

C24_Witness ==
    /\ ~IsCyclic
    /\ call.op = "bl_irreps"
    /\ call.args = <<2>>
    /\ call.ret = Ok(PyList(<< <<0, 0>>, <<1, 0>>, <<1, 1>>, <<1, 2>> >>))

\* ------------------------------------------------ claims: concurrent callers

\* The objects in the heap that were built for the request.
BuiltFor(request) ==
    IF request.op = "irrep"
    THEN {i \in DOMAIN heap : /\ heap[i].cls = "IrreducibleRepresentation"
                              /\ heap[i].group = self
                              /\ heap[i].id = request.key}
    ELSE {i \in DOMAIN heap : heap[i].cls = "CyclicGroup" /\ heap[i].N = request.key[1]}

\* C25: while an external mutex is held across 'check cache, else build and
\* insert' and the return, at most one object is ever built for an id, and
\* two callers that asked for the same id and returned hold the same object.
C25_MutexKeepsReferenceIdentity ==
    (call.op = "concurrent" /\ call.mutex) =>
        /\ \A i \in Callers : Cardinality(BuiltFor(call.args[i])) <= 1
        /\ \A i \in Callers : call.pc[i] = "done" =>
                BuiltFor(call.args[i]) = {Num(call.rets[i].val)}
        /\ (call.args[1] = call.args[2] /\ \A i \in Callers : call.pc[i] = "done") =>
                call.rets[1] = call.rets[2]

\* Without the mutex: both callers passed the test for the same id, each
\* built an object, and they returned different objects.
C25_Witness ==
    /\ call.op = "concurrent"
    /\ ~call.mutex
    /\ call.args[1] = call.args[2]
    /\ \A i \in Callers : call.pc[i] = "done"
    /\ call.rets[1] # call.rets[2]
    /\ Cardinality(BuiltFor(call.args[1])) = 2

\* C26: every constructed CyclicGroup(N) registers exactly the ids (k,) for
\* k = 0 .. N // 2; so concurrent irrep(k) calls with a valid k, with or
\* without a mutex, never reach the build, leave one object per id and
\* return the registry's object.
C26_CyclicIrrepIsPureRead ==
    /\ \A g \in CyclicGroups(heap) :
            DOMAIN heap[g].irreps = {<<k>> : k \in 0 .. (heap[g].N \div 2)}
    /\ (call.op = "concurrent" /\ heap[self].cls = "CyclicGroup") =>
            \A i \in Callers : call.args[i].op = "irrep" =>
                /\ call.pc[i] # "build"
                /\ Cardinality(BuiltFor(call.args[i])) = 1
                /\ call.pc[i] = "done" =>
                        call.rets[i] = Ok(PyRef(heap[self].irreps[call.args[i].key]))

\* Two callers without a mutex asked a cyclic group for the same two-
\* dimensional irrep and both returned, with the same object.
C26_Witness ==
    /\ call.op = "concurrent"
    /\ ~call.mutex
    /\ heap[self].cls = "CyclicGroup"
    /\ call.args[1] = call.args[2]
    /\ call.args[1].op = "irrep"
    /\ \A i \in Callers : call.pc[i] = "done"
    /\ call.rets[1] = call.rets[2]
    /\ heap[Num(call.rets[1].val)].size = 2

\* ------------------------------------------------- claims: O2._generator

\* C27: over every sequence of O2._generator(f) calls there is one cached O2
\* instance, never replaced; each call leaves its maximum frequency at the
\* larger of what it was and f (f itself at the first call), so that it is
\* the largest f asked for so far and never decreases, and no other step
\* changes it; its registry holds (0, 0) and (1, k) for k = 0 .. maximum
\* frequency; and every irrep registered before a step is registered after
\* it under the same id as the same, unchanged object.
C27_GeneratorRaisesFrequency ==
    [][/\ O2_cached_group_instance # NoRef =>
            O2_cached_group_instance' = O2_cached_group_instance
       /\ O2Groups(heap') \subseteq {O2_cached_group_instance'}
       /\ O2_cached_group_instance' # NoRef =>
            LET g == O2_cached_group_instance'
                asked == call'.op = "_generator" /\ call'.args[1] = "O2"
                f == call'.args[2]
            IN  /\ heap'[g].maximum_frequency =
                        IF O2_cached_group_instance = NoRef THEN f
                        ELSE IF asked /\ f > heap[g].maximum_frequency THEN f
                        ELSE heap[g].maximum_frequency
                /\ asked => call'.ret = Ok(PyRef(g))
                /\ {<<0, 0>>} \cup {<<1, k>> : k \in 0 .. heap'[g].maximum_frequency}
                        \subseteq DOMAIN heap'[g].irreps
                /\ O2_cached_group_instance # NoRef =>
                        \A id \in DOMAIN heap[g].irreps :
                            /\ id \in DOMAIN heap'[g].irreps
                            /\ heap'[g].irreps[id] = heap[g].irreps[id]
                            /\ heap'[heap[g].irreps[id]] = heap[heap[g].irreps[id]]]_vars

\* O2._generator(2) has raised the maximum frequency of the cached instance
\* in place: the irrep (1, 2) was built after objects that followed (1, 1).
C27_Witness ==
    /\ call.op = "_generator"
    /\ call.args = <<"O2", 2>>
    /\ call.ret = Ok(PyRef(O2_cached_group_instance))
    /\ heap[O2_cached_group_instance].maximum_frequency = 2
    /\ heap[O2_cached_group_instance].irreps[<<1, 2>>] >
            heap[O2_cached_group_instance].irreps[<<1, 1>>] + 1

\* ------------------------------------ claims: Clebsch-Gordan multiplicities

\* The multiplicity of the irrep (j,) of the call in _tensor_product_irreps(m, n).
RECURSIVE ListedMultiplicity(_)
ListedMultiplicity(i) ==
    IF i = 0 THEN 0
    ELSE ListedMultiplicity(i - 1) + (IF Listed[i][1] = <<call.args[3]>> THEN Listed[i][2] ELSE 0)

\* C28: for all valid m, n and j, _clebsh_gordan_coeff(m, n, j) returns an
\* array of shape (size_m, size_n, multiplicity, size_j) whose third axis is
\* the multiplicity of (j,) in _tensor_product_irreps(m, n), 0 when (j,) is
\* not listed.
C28_ClebshGordanMultiplicity ==
    call.op = "_clebsh_gordan_coeff" =>
        /\ IsOk(call.ret)
        /\ call.ret.val.type = "ndarray"
        /\ DOMAIN call.ret.val.val = 1 .. SizeOf(call.args[1])
        /\ \A a \in DOMAIN call.ret.val.val :
            /\ DOMAIN call.ret.val.val[a] = 1 .. SizeOf(call.args[2])
            /\ \A b \in DOMAIN call.ret.val.val[a] :
                /\ Len(call.ret.val.val[a][b]) = ListedMultiplicity(Len(Listed))
                /\ IsListed <=> Len(call.ret.val.val[a][b]) > 0
                /\ \A x \in DOMAIN call.ret.val.val[a][b] :
                        Len(call.ret.val.val[a][b][x]) = SizeOf(call.args[3])

\* C_6, 1 (x) 1 = 2 * (0,) + (2,): asked for j = 1, which is not listed,
\* the call returned an array with an empty third axis.
C28_Witness ==
    /\ N = 6
    /\ call.op = "_clebsh_gordan_coeff"
    /\ call.args = <<1, 1, 1>>
    /\ IsOk(call.ret)
    /\ call.ret.val.val = << <<<<>>, <<>>>>, <<<<>>, <<>>>> >>

\* ------------------------------------------- claims: CyclicGroup._inverse

\* C29: for every parametrization p of 'int', 'radians' and 'MAT' and every
\* x in [0, N), _inverse of the p-encoding of x returns the p-encoding of
\* (-x) mod N.
C29_InverseInEveryParametrization ==
    call.op = "_inverse" =>
        \A x \in 0 .. (N - 1) :
            call.args[1] = Encoding(N, x, call.args[2]) =>
                call.ret = Ok(Encoding(N, (-x) % N, call.args[2]))

\* ------------------------------------------------------------ claims: grids

\* The elements of the returned list.
Grid == call.ret.val.val

\* C30: for a count n >= 0, CyclicGroup(N).grid('regular', n) fails unless n
\* divides N and then returns the n pairwise distinct elements i * (N / n),
\* i = 0 .. n - 1, in that order, a set closed under combine;
\* O2.grid(n, 'regular') returns the n rotations (0, i * 2pi / n) followed by
\* the n reflections (1, i * 2pi / n), 2n elements; and a 'rand' grid of
\* either group has n elements, all of the group.
C30_Grids ==
    (call.op = "grid" /\ call.args[2] >= 0) =>
        LET type == call.args[1]
            n == call.args[2]
        IN  /\ (IsCyclic /\ type = "regular") =>
                IF n = 0 \/ N % n # 0 THEN ~IsOk(call.ret)
                ELSE /\ IsOk(call.ret)
                     /\ Grid = [i \in 1 .. n |-> GroupElement(self, PyInt((i - 1) * (N \div n)))]
                     /\ \A i \in 1 .. n, j \in 1 .. n : Grid[i] = Grid[j] => i = j
                     /\ \A i \in 1 .. n, j \in 1 .. n : \E k \in 1 .. n :
                            Ok(Grid[k].val[2]) = Combined(Grid[i].val[2], Grid[j].val[2])
            /\ (~IsCyclic /\ type = "regular") =>
                /\ IsOk(call.ret)
                /\ Grid = [i \in 1 .. (2 * n) |->
                            IF i <= n THEN GroupElement(self, O2Pair(0, ((i - 1) * Turn) \div n))
                            ELSE GroupElement(self, O2Pair(1, ((i - n - 1) * Turn) \div n))]
                /\ Len(Grid) = 2 * n
            /\ (type = "rand" /\ (IsCyclic \/ call.args[3] # "other")) =>
                /\ IsOk(call.ret)
                /\ Len(Grid) = n
                /\ \A i \in 1 .. n :
                    /\ Grid[i].type = "GroupElement"
                    /\ Grid[i].val[1] = self
                    /\ IF IsCyclic THEN Num(Grid[i].val[2]) \in 0 .. (N - 1)
                       ELSE /\ Num(Grid[i].val[2].val[1]) \in {0, 1}
                            /\ Num(Grid[i].val[2].val[2]) \in 0 .. (Turn - 1)

\* C_6.grid('regular', 3) returned the elements 0, 2, 4.
C30_Witness ==
    /\ IsCyclic /\ N = 6
    /\ call.op = "grid"
    /\ call.args = <<"regular", 3>>
    /\ call.ret = Ok(PyList(<<GroupElement(self, PyInt(0)), GroupElement(self, PyInt(2)),
                              GroupElement(self, PyInt(4))>>))

====
